---------------------------- MODULE Spec2Model ----------------------------
(***************************************************************************)
(* SubHub: subscription synchronisation and node-metadata extraction.      *)
(*                                                                         *)
(* Text is modelled as a sequence of characters, each character a string.  *)
(* Characters outside ASCII are written by code point:                     *)
(*   "u5269" "u4F59"  the "remaining" marker (two characters)              *)
(*   "u5230" "u671F"  the "expire" marker (two characters)                 *)
(*   "u5929"          the "days" character                                 *)
(*   "uFF1A"          the full-width colon                                 *)
(* A response body is modelled as the sequence of its lines, that is, as   *)
(* the text already cut at its line breaks.                                *)
(***************************************************************************)
EXTENDS Integers, Sequences, FiniteSets, TLC

(***************************************************************************)
(* Characters and the string primitives of the run-time library.          *)
(***************************************************************************)
Digits == {"0", "1", "2", "3", "4", "5", "6", "7", "8", "9"}

WhiteSpace == {" ", "\t", "\n", "\r"}

UpperCase == <<"A", "B", "C", "D", "E", "F", "G", "H", "I", "J", "K", "L", "M",
               "N", "O", "P", "Q", "R", "S", "T", "U", "V", "W", "X", "Y", "Z">>

LowerCase == <<"a", "b", "c", "d", "e", "f", "g", "h", "i", "j", "k", "l", "m",
               "n", "o", "p", "q", "r", "s", "t", "u", "v", "w", "x", "y", "z">>

LowerChar(c) ==
    IF \E i \in 1..26 : UpperCase[i] = c
    THEN LowerCase[CHOOSE i \in 1..26 : UpperCase[i] = c]
    ELSE c

ToLowerCase(s) == [i \in 1..Len(s) |-> LowerChar(s[i])]

ToUpperCase(s) ==
    [i \in 1..Len(s) |->
        IF \E k \in 1..26 : LowerCase[k] = s[i]
        THEN UpperCase[CHOOSE k \in 1..26 : LowerCase[k] = s[i]]
        ELSE s[i]]

DigitValue(c) == CHOOSE n \in 0..9 : <<"0", "1", "2", "3", "4", "5", "6", "7", "8", "9">>[n + 1] = c

\* String.prototype.trim
Trim(s) ==
    IF \A i \in 1..Len(s) : s[i] \in WhiteSpace
    THEN <<>>
    ELSE LET first == CHOOSE i \in 1..Len(s) :
                          /\ s[i] \notin WhiteSpace
                          /\ \A j \in 1..(i - 1) : s[j] \in WhiteSpace
             last  == CHOOSE i \in 1..Len(s) :
                          /\ s[i] \notin WhiteSpace
                          /\ \A j \in (i + 1)..Len(s) : s[j] \in WhiteSpace
         IN  SubSeq(s, first, last)

\* String.prototype.startsWith
StartsWith(s, p) == Len(s) >= Len(p) /\ SubSeq(s, 1, Len(p)) = p

\* s has p at position i (1-based)
HasAt(s, i, p) == i + Len(p) - 1 <= Len(s) /\ SubSeq(s, i, i + Len(p) - 1) = p

\* String.prototype.indexOf for one character, 0 when absent (1-based otherwise)
IndexOfChar(s, c) ==
    IF \E i \in 1..Len(s) : s[i] = c
    THEN CHOOSE i \in 1..Len(s) : s[i] = c /\ \A j \in 1..(i - 1) : s[j] # c
    ELSE 0

\* the end (exclusive) of the longest run of characters of class cls from i
RECURSIVE RunEnd(_, _, _)
RunEnd(s, i, cls) ==
    IF i <= Len(s) /\ s[i] \in cls THEN RunEnd(s, i + 1, cls) ELSE i

(***************************************************************************)
(* Proxy-line classifier (utils/parse-node).                               *)
(***************************************************************************)
P_vless     == <<"v", "l", "e", "s", "s", ":", "/", "/">>
P_trojan    == <<"t", "r", "o", "j", "a", "n", ":", "/", "/">>
P_vmess     == <<"v", "m", "e", "s", "s", ":", "/", "/">>
P_ss        == <<"s", "s", ":", "/", "/">>
P_ssr       == <<"s", "s", "r", ":", "/", "/">>
P_hysteria2 == <<"h", "y", "s", "t", "e", "r", "i", "a", "2", ":", "/", "/">>
P_hysteria  == <<"h", "y", "s", "t", "e", "r", "i", "a", ":", "/", "/">>
P_tuic      == <<"t", "u", "i", "c", ":", "/", "/">>
P_wireguard == <<"w", "i", "r", "e", "g", "u", "a", "r", "d", ":", "/", "/">>

isValidProxyUrl(line) ==
    LET trimmed == ToLowerCase(Trim(line))
    IN  \/ StartsWith(trimmed, P_vless)
        \/ StartsWith(trimmed, P_trojan)
        \/ StartsWith(trimmed, P_vmess)
        \/ StartsWith(trimmed, P_ss)
        \/ StartsWith(trimmed, P_ssr)
        \/ StartsWith(trimmed, P_hysteria2)
        \/ StartsWith(trimmed, P_hysteria)
        \/ StartsWith(trimmed, P_tuic)
        \/ StartsWith(trimmed, P_wireguard)

getProtocolType(line) ==
    LET trimmed == ToLowerCase(Trim(line))
    IN  IF StartsWith(trimmed, P_vless) THEN "vless"
        ELSE IF StartsWith(trimmed, P_trojan) THEN "trojan"
        ELSE "other"

(***************************************************************************)
(* Node-name parser (utils/parse-node).                                    *)
(*                                                                         *)
(* An optional value is a sequence of length at most one: <<>> is absent   *)
(* (undefined or null), <<v>> is the value v.                              *)
(* A number of GB is [nan, milli]: nan for NaN, else milli thousandths of  *)
(* a GB (inputs carry at most three decimals, so sums are exact).          *)
(***************************************************************************)
Absent  == <<>>
Some(v) == <<v>>

NaN        == [nan |-> TRUE,  milli |-> 0]
Num(milli) == [nan |-> FALSE, milli |-> milli]

\* the markers of the three patterns; the patterns ignore case, which only
\* the letters of "exp:" and of the units have
C_remain == <<"u5269", "u4F59">>
C_expire == <<"u5230", "u671F">>
C_exp    == <<"e", "x", "p", ":">>

Separators == {":", "uFF1A", " "}

RECURSIVE DecimalValue(_)
DecimalValue(ds) ==
    IF ds = <<>> THEN 0
    ELSE 10 * DecimalValue(SubSeq(ds, 1, Len(ds) - 1)) + DigitValue(ds[Len(ds)])

\* parseFloat on a string of digits and dots: the longest prefix
\* digits [ "." digits ], NaN when that prefix holds no digit
parseFloat(s) ==
    LET intEnd  == RunEnd(s, 1, Digits)
        hasDot  == intEnd <= Len(s) /\ s[intEnd] = "."
        fracEnd == IF hasDot THEN RunEnd(s, intEnd + 1, Digits) ELSE intEnd
        ints    == SubSeq(s, 1, intEnd - 1)
        fracs   == IF hasDot THEN SubSeq(s, intEnd + 1, fracEnd - 1) ELSE <<>>
        frac3   == SubSeq(fracs \o <<"0", "0", "0">>, 1, 3)
    IN  IF ints = <<>> /\ fracs = <<>>
        THEN NaN
        ELSE Num(1000 * DecimalValue(ints) + DecimalValue(frac3))

\* the code unit order of the characters of a date
CharCode(c) == IF c = "-" THEN 45 ELSE 48 + DigitValue(c)

RECURSIVE StrLess(_, _)
StrLess(a, b) ==
    IF b = <<>> THEN FALSE
    ELSE IF a = <<>> THEN TRUE
    ELSE IF a[1] = b[1] THEN StrLess(Tail(a), Tail(b))
    ELSE CharCode(a[1]) < CharCode(b[1])

\* \d{4}-\d{2}-\d{2} at position i
IsDateAt(s, i) ==
    /\ i + 9 <= Len(s)
    /\ \A k \in {0, 1, 2, 3, 5, 6, 8, 9} : s[i + k] \in Digits
    /\ s[i + 4] = "-"
    /\ s[i + 7] = "-"

\* expireRegex matched with the marker at position i: the captured date
expireMatchAt(s, i) ==
    IF HasAt(s, i, C_expire)
    THEN LET d == RunEnd(s, i + 2, Separators)
         IN  IF IsDateAt(s, d) THEN Some(SubSeq(s, d, d + 9)) ELSE Absent
    ELSE Absent

\* String.prototype.match: of the matches of a pattern tried at every
\* position, the leftmost
FirstMatch(matches) ==
    IF \E i \in 1..Len(matches) : matches[i] # Absent
    THEN matches[CHOOSE i \in 1..Len(matches) :
                    /\ matches[i] # Absent
                    /\ \A j \in 1..(i - 1) : matches[j] = Absent]
    ELSE Absent

expireRegex(s) == FirstMatch([i \in 1..Len(s) |-> expireMatchAt(s, i)])

\* a pattern exp:(\d{10,}) that captures the whole run of digits
expUnixMatchAtUnbounded(s, i) ==
    IF i + 3 <= Len(s) /\ ToLowerCase(SubSeq(s, i, i + 3)) = C_exp
    THEN LET e == RunEnd(s, i + 4, Digits)
             n == e - (i + 4)
         IN  IF n >= 10 THEN Some(SubSeq(s, i + 4, e - 1)) ELSE Absent
    ELSE Absent

\* expUnixRegex matched at position i: the captured 10 to 13 digits
expUnixMatchAt(s, i) ==
    IF i + 3 <= Len(s) /\ ToLowerCase(SubSeq(s, i, i + 3)) = C_exp
    THEN LET e == RunEnd(s, i + 4, Digits)
             n == e - (i + 4)
         IN  IF n >= 10
             THEN Some(SubSeq(s, i + 4, i + 3 + (IF n > 13 THEN 13 ELSE n)))
             ELSE Absent
    ELSE Absent

expUnixRegex(s) == FirstMatch([i \in 1..Len(s) |-> expUnixMatchAt(s, i)])

\* trafficRegex matched at position i: <<number text, unit text>>
trafficMatchAt(s, i) ==
    IF HasAt(s, i, C_remain)
    THEN LET n0 == RunEnd(s, i + 2, Separators)
             n1 == RunEnd(s, n0, Digits \cup {"."})
             u0 == RunEnd(s, n1, WhiteSpace)
             up == ToUpperCase(SubSeq(s, u0, IF u0 + 1 <= Len(s) THEN u0 + 1 ELSE Len(s)))
         IN  IF n1 = n0 THEN Absent
             ELSE IF up = <<"G", "B">> \/ up = <<"T", "B">>
                  THEN Some(<<SubSeq(s, n0, n1 - 1), SubSeq(s, u0, u0 + 1)>>)
             ELSE IF up # <<>> /\ up[1] \in {"G", "T"}
                  THEN Some(<<SubSeq(s, n0, n1 - 1), SubSeq(s, u0, u0)>>)
             ELSE Absent
    ELSE Absent

trafficRegex(s) == FirstMatch([i \in 1..Len(s) |-> trafficMatchAt(s, i)])

\* floor(value of the decimal digits ds / 86400) by long division; the value
\* itself (up to 13 digits) is never held in one integer
RECURSIVE DivSeconds(_)
DivSeconds(ds) ==
    IF ds = <<>> THEN [q |-> 0, r |-> 0]
    ELSE LET p   == DivSeconds(SubSeq(ds, 1, Len(ds) - 1))
             cur == 10 * p.r + DigitValue(ds[Len(ds)])
         IN  [q |-> 10 * p.q + (cur \div 86400), r |-> cur % 86400]

RECURSIVE StripZeros(_)
StripZeros(ds) ==
    IF ds # <<>> /\ ds[1] = "0" THEN StripZeros(Tail(ds)) ELSE ds

\* n written with exactly w decimal digits
RECURSIVE Pad(_, _)
Pad(n, w) ==
    IF w = 0 THEN <<>>
    ELSE Pad(n \div 10, w - 1) \o <<(<<"0", "1", "2", "3", "4", "5", "6", "7", "8", "9">>)[(n % 10) + 1]>>

\* Date.prototype.toISOString().split('T')[0] of the day `days` after the epoch
IsoDateOfDay(days) ==
    LET z   == days + 719468
        era == z \div 146097
        doe == z - era * 146097
        yoe == (doe - (doe \div 1460) + (doe \div 36524) - (doe \div 146096)) \div 365
        doy == doe - (365 * yoe + (yoe \div 4) - (yoe \div 100))
        mp  == (5 * doy + 2) \div 153
        d   == doy - ((153 * mp + 2) \div 5) + 1
        m   == IF mp < 10 THEN mp + 3 ELSE mp - 9
        y   == yoe + era * 400 + (IF m <= 2 THEN 1 ELSE 0)
    IN  Pad(y, 4) \o <<"-">> \o Pad(m, 2) \o <<"-">> \o Pad(d, 2)

\* the date of a captured exp: timestamp: milliseconds when the number is
\* above 9999999999, seconds otherwise
UnixDate(ds) ==
    LET isMs    == Len(StripZeros(ds)) > 10
        seconds == IF isMs THEN SubSeq(ds, 1, Len(ds) - 3) ELSE ds
    IN  IsoDateOfDay(DivSeconds(seconds).q)

\* the milliseconds `new Date` is given for a captured timestamp, in decimal
\* digits without leading zeros
MsDigits(ds) ==
    LET digits == StripZeros(ds)
    IN  IF Len(digits) > 10 THEN digits
        ELSE IF digits = <<>> THEN <<>>
        ELSE digits \o <<"0", "0", "0">>

\* the largest time value of a Date: 8640000000000000 ms
MaxTimeDigits == <<"8", "6", "4", "0", "0", "0", "0", "0", "0", "0", "0", "0", "0", "0", "0", "0">>

\* toISOString throws RangeError on a Date whose time value is out of range
ValidTime(ms) ==
    \/ Len(ms) < Len(MaxTimeDigits)
    \/ Len(ms) = Len(MaxTimeDigits) /\ ~StrLess(MaxTimeDigits, ms)

\* parseNodeName raises: the only call of it that can throw is toISOString
parseNodeNameRaises(name) ==
    /\ expireRegex(name) = Absent
    /\ expUnixRegex(name) # Absent
    /\ ~ValidTime(MsDigits(expUnixRegex(name)[1]))

\* a parser that tries the exp: timestamp before the expire marker
parseNodeNameUnixFirst(name) ==
    LET expireMatch  == expireRegex(name)
        unixMatch    == expUnixRegex(name)
        trafficMatch == trafficRegex(name)
        value        == parseFloat(trafficMatch[1][1])
        unit         == ToUpperCase(trafficMatch[1][2])
    IN  [name |-> name,
         expireDate |->
            IF unixMatch # Absent THEN Some(UnixDate(unixMatch[1]))
            ELSE IF expireMatch # Absent THEN Some(expireMatch[1])
            ELSE Absent,
         remainTrafficGB |->
            IF trafficMatch = Absent THEN Absent
            ELSE IF value.nan THEN Some(NaN)
            ELSE IF unit = <<"T", "B">> \/ unit = <<"T">>
                 THEN Some(Num(value.milli * 1024))
            ELSE Some(value)]

parseNodeName(name) ==
    LET expireMatch  == expireRegex(name)
        unixMatch    == expUnixRegex(name)
        trafficMatch == trafficRegex(name)
        value        == parseFloat(trafficMatch[1][1])
        unit         == ToUpperCase(trafficMatch[1][2])
    IN  [name |-> name,
         expireDate |->
            IF expireMatch # Absent THEN Some(expireMatch[1])
            ELSE IF unixMatch # Absent THEN Some(UnixDate(unixMatch[1]))
            ELSE Absent,
         remainTrafficGB |->
            IF trafficMatch = Absent THEN Absent
            ELSE IF value.nan THEN Some(NaN)
            ELSE IF unit = <<"T", "B">> \/ unit = <<"T">>
                 THEN Some(Num(value.milli * 1024))
            ELSE Some(value)]

\* The percent escapes decodeURIComponent is modelled on: those of the
\* characters the input lines use.  Any other "%" is a malformed escape.
EscapeTable ==
    { [esc |-> <<"%", "2", "0">>, ch |-> " "],
      [esc |-> <<"%", "3", "A">>, ch |-> ":"],
      [esc |-> <<"%", "E", "5", "%", "8", "9", "%", "A", "9">>, ch |-> "u5269"],
      [esc |-> <<"%", "E", "4", "%", "B", "D", "%", "9", "9">>, ch |-> "u4F59"],
      [esc |-> <<"%", "E", "5", "%", "A", "4", "%", "A", "9">>, ch |-> "u5929"] }

\* decodeURIComponent: Some(text), or Absent when it throws URIError
RECURSIVE decodeURIComponent(_)
decodeURIComponent(s) ==
    IF s = <<>> THEN Some(<<>>)
    ELSE IF s[1] # "%"
         THEN LET rest == decodeURIComponent(Tail(s))
              IN  IF rest = Absent THEN Absent ELSE Some(<<s[1]>> \o rest[1])
    ELSE IF \E e \in EscapeTable : StartsWith(s, e.esc)
         THEN LET e    == CHOOSE e \in EscapeTable : StartsWith(s, e.esc)
                  rest == decodeURIComponent(SubSeq(s, Len(e.esc) + 1, Len(s)))
              IN  IF rest = Absent THEN Absent ELSE Some(<<e.ch>> \o rest[1])
    ELSE Absent

extractNodeNameFromUrl(url) ==
    LET hashIndex == IndexOfChar(url, "#")
        raw       == SubSeq(url, hashIndex + 1, Len(url))
    IN  IF hashIndex = 0 THEN <<>>
        ELSE IF decodeURIComponent(raw) # Absent THEN decodeURIComponent(raw)[1]
        ELSE raw

(***************************************************************************)
(* The base64 branch of the syncs (sync.ts 79-94, scheduler 362-373).  A   *)
(* response text is a sequence of lines; the string the code tests is the  *)
(* lines joined by line feeds.                                             *)
(***************************************************************************)
\* the response text as one string
RECURSIVE Flat(_)
Flat(text) ==
    IF text = <<>> THEN <<>>
    ELSE IF Len(text) = 1 THEN text[1]
    ELSE text[1] \o <<"\n">> \o Flat(Tail(text))

\* String.prototype.includes
Includes(s, p) == \E i \in 1..Len(s) : HasAt(s, i, p)

Base64Alphabet ==
    <<"A", "B", "C", "D", "E", "F", "G", "H", "I", "J", "K", "L", "M",
       "N", "O", "P", "Q", "R", "S", "T", "U", "V", "W", "X", "Y", "Z",
       "a", "b", "c", "d", "e", "f", "g", "h", "i", "j", "k", "l", "m",
       "n", "o", "p", "q", "r", "s", "t", "u", "v", "w", "x", "y", "z",
       "0", "1", "2", "3", "4", "5", "6", "7", "8", "9", "+", "/">>

Base64Chars == {Base64Alphabet[i] : i \in 1..64} \cup {"="}

\* the string has more than this many characters when it is taken for base64
Base64MinLength == 100

\* a detection that takes a text of 100 characters too
DetectedBase64From100(flat, trimmed) ==
    /\ trimmed # <<>>
    /\ \A i \in 1..Len(trimmed) : trimmed[i] \in Base64Chars \cup WhiteSpace
    /\ ~Includes(flat, <<":", "/", "/">>)
    /\ Len(trimmed) >= Base64MinLength

\* /^[A-Za-z0-9+/=\s]+$/.test(trimmed) && !flat.includes('://')
\*     && trimmed.length > 100
DetectedBase64(flat, trimmed) ==
    /\ trimmed # <<>>
    /\ \A i \in 1..Len(trimmed) : trimmed[i] \in Base64Chars \cup WhiteSpace
    /\ ~Includes(flat, <<":", "/", "/">>)
    /\ Len(trimmed) > Base64MinLength

isBase64(text) == DetectedBase64(Flat(text), Trim(Flat(text)))

\* the characters of a binary string, by byte value (code units 0 to 255);
\* the printable ASCII ones are the characters themselves (the grave accent
\* is written x60)
ByteChars ==
    <<"x00", "x01", "x02", "x03", "x04", "x05", "x06", "x07",
       "x08", "\t", "\n", "x0B", "x0C", "\r", "x0E", "x0F",
       "x10", "x11", "x12", "x13", "x14", "x15", "x16", "x17",
       "x18", "x19", "x1A", "x1B", "x1C", "x1D", "x1E", "x1F",
       " ", "!", "\"", "#", "$", "%", "&", "'",
       "(", ")", "*", "+", ",", "-", ".", "/",
       "0", "1", "2", "3", "4", "5", "6", "7",
       "8", "9", ":", ";", "<", "=", ">", "?",
       "@", "A", "B", "C", "D", "E", "F", "G",
       "H", "I", "J", "K", "L", "M", "N", "O",
       "P", "Q", "R", "S", "T", "U", "V", "W",
       "X", "Y", "Z", "[", "\\", "]", "^", "_",
       "x60", "a", "b", "c", "d", "e", "f", "g",
       "h", "i", "j", "k", "l", "m", "n", "o",
       "p", "q", "r", "s", "t", "u", "v", "w",
       "x", "y", "z", "{", "|", "}", "~", "x7F",
       "x80", "x81", "x82", "x83", "x84", "x85", "x86", "x87",
       "x88", "x89", "x8A", "x8B", "x8C", "x8D", "x8E", "x8F",
       "x90", "x91", "x92", "x93", "x94", "x95", "x96", "x97",
       "x98", "x99", "x9A", "x9B", "x9C", "x9D", "x9E", "x9F",
       "xA0", "xA1", "xA2", "xA3", "xA4", "xA5", "xA6", "xA7",
       "xA8", "xA9", "xAA", "xAB", "xAC", "xAD", "xAE", "xAF",
       "xB0", "xB1", "xB2", "xB3", "xB4", "xB5", "xB6", "xB7",
       "xB8", "xB9", "xBA", "xBB", "xBC", "xBD", "xBE", "xBF",
       "xC0", "xC1", "xC2", "xC3", "xC4", "xC5", "xC6", "xC7",
       "xC8", "xC9", "xCA", "xCB", "xCC", "xCD", "xCE", "xCF",
       "xD0", "xD1", "xD2", "xD3", "xD4", "xD5", "xD6", "xD7",
       "xD8", "xD9", "xDA", "xDB", "xDC", "xDD", "xDE", "xDF",
       "xE0", "xE1", "xE2", "xE3", "xE4", "xE5", "xE6", "xE7",
       "xE8", "xE9", "xEA", "xEB", "xEC", "xED", "xEE", "xEF",
       "xF0", "xF1", "xF2", "xF3", "xF4", "xF5", "xF6", "xF7",
       "xF8", "xF9", "xFA", "xFB", "xFC", "xFD", "xFE", "xFF">>

Base64Value(c) == (CHOOSE i \in 1..64 : Base64Alphabet[i] = c) - 1

\* byte j of base64 digits without padding: 4 digits hold 3 bytes
DecodedByte(b, j) ==
    LET g  == 4 * ((j - 1) \div 3)
        v1 == Base64Value(b[g + 1])
        v2 == Base64Value(b[g + 2])
    IN  IF (j - 1) % 3 = 0 THEN v1 * 4 + (v2 \div 16)
        ELSE IF (j - 1) % 3 = 1 THEN (v2 % 16) * 16 + (Base64Value(b[g + 3]) \div 4)
        ELSE (Base64Value(b[g + 3]) % 4) * 64 + Base64Value(b[g + 4])

\* the binary string of base64 digits without padding (a last group of 2 or
\* 3 digits gives 1 or 2 bytes, the bits left over are dropped)
DecodeGroups(b) == [j \in 1..((Len(b) * 3) \div 4) |-> ByteChars[DecodedByte(b, j) + 1]]

\* the data without the one or two "=" that end a string of a length
\* divisible by 4
Unpadded(d) ==
    LET n == Len(d)
    IN  IF n > 0 /\ n % 4 = 0 /\ d[n] = "="
        THEN IF d[n - 1] = "=" THEN SubSeq(d, 1, n - 2) ELSE SubSeq(d, 1, n - 1)
        ELSE d

DecodeDigits(b) ==
    IF Len(b) % 4 = 1 \/ \E i \in 1..Len(b) : b[i] \notin Base64Chars \ {"="}
    THEN Absent
    ELSE Some(DecodeGroups(b))

\* atob: Some(binary string), or Absent when it throws InvalidCharacterError
atob(d) == DecodeDigits(Unpadded(d))

\* s.replace(/\s/g, '')
WithoutWhiteSpace(s) == SelectSeq(s, LAMBDA c : c \notin WhiteSpace)

\* the positions of the line feeds of a string, and its two ends
Breaks(s) == {0, Len(s) + 1} \cup {i \in 1..Len(s) : s[i] = "\n"}

\* the line that starts after the break at position b: up to the next break,
\* without the carriage return before it
LineAfter(s, b) ==
    LET e == CHOOSE x \in Breaks(s) : x > b /\ \A y \in Breaks(s) : y > b => x <= y
    IN  IF e <= Len(s) /\ e - 1 > b /\ s[e - 1] = "\r"
        THEN SubSeq(s, b + 1, e - 2)
        ELSE SubSeq(s, b + 1, e - 1)

\* text.split(/\r?\n/) of a string
SplitLines(s) ==
    [k \in 1..(Cardinality(Breaks(s)) - 1) |->
        LineAfter(s, CHOOSE b \in Breaks(s) : Cardinality({x \in Breaks(s) : x < b}) = k - 1)]

\* lines 85-94: the decoded string, or the text as it is when atob throws
DecodedOr(text, decoded) == IF decoded = Absent THEN text ELSE SplitLines(decoded[1])

\* the text the lines are taken from: lines 79-94
TextUsed(text) ==
    IF isBase64(text)
    THEN DecodedOr(text, atob(WithoutWhiteSpace(Trim(Flat(text)))))
    ELSE text

(***************************************************************************)
(* The parse and aggregate stage of the global sync (sync.ts).             *)
(***************************************************************************)
\* text.split(/\r?\n/).filter((line) => line.trim())
NonBlankLines(text) == SelectSeq(text, LAMBDA line : Trim(line) # <<>>)

AddGB(a, b) == IF a.nan \/ b.nan THEN NaN ELSE Num(a.milli + b.milli)

\* Math.round(x * 100) / 100, on thousandths (the figures of the input lines
\* have no sum that ends in a 5 in the thousandths, where the rounding of
\* the floating-point product could differ)
Round2(x) == IF x.nan THEN NaN ELSE Num(((x.milli + 5) \div 10) * 10)

EmptyProtocols == [vless |-> 0, trojan |-> 0, other |-> 0]

EmptyScan ==
    [validLines |-> <<>>, invalidCount |-> 0, protocols |-> EmptyProtocols,
     expireDates |-> <<>>, totalTrafficGB |-> Num(0), hasTrafficInfo |-> FALSE]

\* lines 119-135 of the loop: a valid line, its node name (when it has one)
\* parsed as `parsed`
ScanValid(acc, line, hasName, parsed) ==
    [validLines     |-> Append(acc.validLines, Trim(line)),
     invalidCount   |-> acc.invalidCount,
     protocols      |-> [acc.protocols EXCEPT ![getProtocolType(line)] = @ + 1],
     expireDates    |-> IF hasName /\ parsed.expireDate # Absent
                        THEN Append(acc.expireDates, parsed.expireDate[1])
                        ELSE acc.expireDates,
     totalTrafficGB |-> IF hasName /\ parsed.remainTrafficGB # Absent
                        THEN AddGB(acc.totalTrafficGB, parsed.remainTrafficGB[1])
                        ELSE acc.totalTrafficGB,
     hasTrafficInfo |-> acc.hasTrafficInfo
                        \/ (hasName /\ parsed.remainTrafficGB # Absent)]

\* the node name of a line, parsed
ParsedName(nodeName) == [hasName |-> nodeName # <<>>, parsed |-> parseNodeName(nodeName)]

ScanNamed(acc, line, named) == ScanValid(acc, line, named.hasName, named.parsed)

\* a pass that skips an invalid line without counting it
ScanLineUncounted(acc, line) ==
    IF ~isValidProxyUrl(line)
    THEN acc
    ELSE ScanNamed(acc, line, ParsedName(extractNodeNameFromUrl(line)))

\* one pass of the loop over the lines
ScanLine(acc, line) ==
    IF ~isValidProxyUrl(line)
    THEN [acc EXCEPT !.invalidCount = @ + 1]
    ELSE ScanNamed(acc, line, ParsedName(extractNodeNameFromUrl(line)))

RECURSIVE ScanLines(_, _)
ScanLines(lines, acc) ==
    IF lines = <<>> THEN acc
    ELSE ScanLines(Tail(lines), ScanLine(acc, Head(lines)))

\* expireDates[0], without the sort
SortedFirstUnsorted(dates) == dates[1]

\* expireDates.sort()[0]
SortedFirst(dates) ==
    CHOOSE d \in {dates[i] : i \in 1..Len(dates)} :
        \A i \in 1..Len(dates) : ~StrLess(dates[i], d)

\* lines 139-150: the SyncResult of a finished loop
ResultOfScan(scan, ts) ==
    [lastSync       |-> ts,
     nodeCount      |-> Len(scan.validLines),
     earliestExpire |-> IF Len(scan.expireDates) > 0
                        THEN Some(SortedFirst(scan.expireDates))
                        ELSE Absent,
     totalRemainGB  |-> IF scan.hasTrafficInfo
                        THEN Some(Round2(scan.totalTrafficGB))
                        ELSE Absent,
     rawLines       |-> scan.validLines,
     protocols      |-> scan.protocols]

\* the SyncResult built from a response text read at time ts
SyncResultOf(text, ts) == ResultOfScan(ScanLines(NonBlankLines(text), EmptyScan), ts)

InvalidCountOf(text) == ScanLines(NonBlankLines(text), EmptyScan).invalidCount

(***************************************************************************)
(* The parse stage of the single-user sync (scheduler).                    *)
(***************************************************************************)
\* the line filter of syncUserSubscription
UserValidLine(line) ==
    \/ StartsWith(line, P_vless)
    \/ StartsWith(line, P_vmess)
    \/ StartsWith(line, P_trojan)
    \/ StartsWith(line, P_ss)
    \/ StartsWith(line, P_ssr)

\* the "N days" pattern matched at position i: the captured digits
daysMatchAt(s, i) ==
    IF HasAt(s, i, C_remain)
    THEN LET d0 == RunEnd(s, i + 2, WhiteSpace)
             d1 == RunEnd(s, d0, Digits)
             t0 == RunEnd(s, d1, WhiteSpace)
         IN  IF d1 > d0 /\ HasAt(s, t0, <<"u5929">>)
             THEN Some(SubSeq(s, d0, d1 - 1))
             ELSE Absent
    ELSE Absent

daysRegex(s) == FirstMatch([i \in 1..Len(s) |-> daysMatchAt(s, i)])

\* the loop over the valid lines: the earliest expiry found, today being `day`
RECURSIVE UserEarliest(_, _, _)
UserEarliest(lines, day, earliest) ==
    IF lines = <<>> THEN earliest
    ELSE LET match == daysRegex(Head(lines))
             str   == IsoDateOfDay(day + DecimalValue(match[1]))
         IN  UserEarliest(Tail(lines), day,
                 IF match # Absent /\ (earliest = Absent \/ StrLess(str, earliest[1]))
                 THEN Some(str)
                 ELSE earliest)

\* lines 385-409: the lastSyncResult of the valid lines
UserResultOfLines(validLines, ts, day) ==
    [lastSync       |-> ts,
     nodeCount      |-> Len(validLines),
     earliestExpire |-> UserEarliest(validLines, day, Absent),
     totalRemainGB  |-> Absent]

\* the lastSyncResult built from a response text read at time ts on day `day`
UserSyncResultOf(text, ts, day) ==
    UserResultOfLines(SelectSeq(NonBlankLines(text), UserValidLine), ts, day)

(***************************************************************************)
(* Inputs: the lines an upstream may send, and the bounds of the model.    *)
(***************************************************************************)
MaxRuns  == 2      \* invocations started in one behaviour
MaxLines == 2      \* lines of a response body (mode "single")
BaseDay  == 20759  \* the clock's day 0, in days after the epoch
MaxLogs  == 10     \* sync.ts: the log keeps the latest 10 entries

\* "vless://#<remain>:1.5GB"
L_vless  == P_vless \o <<"#"
             , "u5269", "u4F59", ":", "1", ".", "5", "G", "B">>
\* " VLESS://" (leading blank, upper case)
L_VLESS  == <<" ", "V", "L", "E", "S", "S", ":", "/", "/">>
\* "trojan://#<expire>:2026-05-04"
L_trojan == P_trojan \o <<"#"
             , "u5230", "u671F", ":", "2", "0", "2", "6", "-", "0", "5", "-", "0", "4">>
\* "vmess://#<remain>2<days>"
L_vmess  == P_vmess \o <<"#", "u5269", "u4F59", "2", "u5929">>
\* "ss://#<remain>:0.004G"
L_ss     == P_ss \o <<"#", "u5269", "u4F59", ":", "0", ".", "0", "0", "4", "G">>
\* "ss://#<remain>:.GB" (a number text without a digit)
L_ssDot  == P_ss \o <<"#", "u5269", "u4F59", ":", ".", "G", "B">>
\* "ssr://#%E5%89%A9%E4%BD%99%3A0G" (the label percent-encoded, 0 GB)
L_ssr    == P_ssr \o <<"#", "%", "E", "5", "%", "8", "9", "%", "A", "9",
                        "%", "E", "4", "%", "B", "D", "%", "9", "9",
                        "%", "3", "A", "0", "G">>
\* "hysteria2://#<remain>:2TB"
L_hy2    == P_hysteria2 \o <<"#", "u5269", "u4F59", ":", "2", "T", "B">>
\* "http://x" (no proxy scheme)
L_http   == <<"h", "t", "t", "p", ":", "/", "/", "x">>
\* " " (a blank line)
L_blank  == <<" ">>

Lines ==
    {L_vless, L_VLESS, L_trojan, L_vmess, L_ss, L_ssDot, L_ssr, L_hy2, L_http, L_blank}

RECURSIVE TextsOfLen(_)
TextsOfLen(n) ==
    IF n = 0 THEN {<<>>}
    ELSE {Append(t, l) : t \in TextsOfLen(n - 1), l \in Lines}

\* every body of at most MaxLines lines.  A body either holds "://" or is
\* blank, so the base64 branch of the syncs (which asks for more than 100
\* characters without "://") is not taken on any of them; it is taken on
\* bodies of Base64Texts, below.
AllTexts == UNION {TextsOfLen(n) : n \in 0..MaxLines}

\* the bodies served in the other modes
SampleTexts == {<<L_vless, L_http, L_trojan>>}

(***************************************************************************)
(* Bodies for the base64 branch, the expiry dates and the days marker.     *)
(***************************************************************************)
\* three lines, ended by CR LF, LF and LF: a vless node whose label is the
\* percent-encoded "<remain>:0G", a line that is no node, a trojan node with
\* the label "exp:1700000000"
D_nodes ==
    <<<<"v", "l", "e", "s", "s", ":", "/", "/", "n", "o", "d", "e", "-",
        "a", ".", "e", "x", "a", "m", "p", "l", "e", ":", "4", "4", "3",
        "#", "%", "E", "5", "%", "8", "9", "%", "A", "9", "%", "E", "4",
        "%", "B", "D", "%", "9", "9", "%", "3", "A", "0", "G">>,
      <<"h", "t", "t", "p", ":", "/", "/", "n", "o", "t", "-", "a", "-",
        "n", "o", "d", "e", ".", "e", "x", "a", "m", "p", "l", "e", "/",
        "l", "i", "s", "t">>,
      <<"t", "r", "o", "j", "a", "n", ":", "/", "/", "n", "o", "d", "e",
        "-", "b", ".", "e", "x", "a", "m", "p", "l", "e", ":", "4", "4",
        "3", "#", "e", "x", "p", ":", "1", "7", "0", "0", "0", "0", "0",
        "0", "0", "0">>,
      <<>>>>

\* the base64 encoding of that text: 168 digits
E_nodes ==
    <<"d", "m", "x", "l", "c", "3", "M", "6", "L", "y", "9", "u", "b",
      "2", "R", "l", "L", "W", "E", "u", "Z", "X", "h", "h", "b", "X",
      "B", "s", "Z", "T", "o", "0", "N", "D", "M", "j", "J", "U", "U",
      "1", "J", "T", "g", "5", "J", "U", "E", "5", "J", "U", "U", "0",
      "J", "U", "J", "E", "J", "T", "k", "5", "J", "T", "N", "B", "M",
      "E", "c", "N", "C", "m", "h", "0", "d", "H", "A", "6", "L", "y",
      "9", "u", "b", "3", "Q", "t", "Y", "S", "1", "u", "b", "2", "R",
      "l", "L", "m", "V", "4", "Y", "W", "1", "w", "b", "G", "U", "v",
      "b", "G", "l", "z", "d", "A", "p", "0", "c", "m", "9", "q", "Y",
      "W", "4", "6", "L", "y", "9", "u", "b", "2", "R", "l", "L", "W",
      "I", "u", "Z", "X", "h", "h", "b", "X", "B", "s", "Z", "T", "o",
      "0", "N", "D", "M", "j", "Z", "X", "h", "w", "O", "j", "E", "3",
      "M", "D", "A", "w", "M", "D", "A", "w", "M", "D", "A", "K">>

\* two lines, 75 characters: an ss node with the label "exp:1800000000" and
\* a vmess node
D_75 ==
    <<<<"s", "s", ":", "/", "/", "c", "2", "V", "j", "c", "m", "V", "0",
        "@", "n", "o", "d", "e", "-", "c", ".", "e", "x", "a", "m", "p",
        "l", "e", ":", "8", "3", "8", "8", "#", "e", "x", "p", ":", "1",
        "8", "0", "0", "0", "0", "0", "0", "0", "0">>,
      <<"v", "m", "e", "s", "s", ":", "/", "/", "a", "b", "c", "d", "e",
        "f", "g", "h", "i", "j", "k", "l", "m", "n", "o", "p", "q", "r">>>>

\* the base64 encoding of that text: 100 digits
E_75 ==
    <<"c", "3", "M", "6", "L", "y", "9", "j", "M", "l", "Z", "q", "Y",
      "2", "1", "W", "M", "E", "B", "u", "b", "2", "R", "l", "L", "W",
      "M", "u", "Z", "X", "h", "h", "b", "X", "B", "s", "Z", "T", "o",
      "4", "M", "z", "g", "4", "I", "2", "V", "4", "c", "D", "o", "x",
      "O", "D", "A", "w", "M", "D", "A", "w", "M", "D", "A", "w", "C",
      "n", "Z", "t", "Z", "X", "N", "z", "O", "i", "8", "v", "Y", "W",
      "J", "j", "Z", "G", "V", "m", "Z", "2", "h", "p", "a", "m", "t",
      "s", "b", "W", "5", "v", "c", "H", "F", "y">>

\* the encoding of D_nodes on one line
B_b64 == <<E_nodes>>

\* the same in lines of 76 characters, a blank before and a blank after
B_wrapped ==
    << <<" ">> \o SubSeq(E_nodes, 1, 76),
       SubSeq(E_nodes, 77, 152),
       SubSeq(E_nodes, 153, Len(E_nodes)) \o <<" ">> >>

\* the encoding of D_75 in two lines: 101 characters with the line feed
B_101 == <<SubSeq(E_75, 1, 60), SubSeq(E_75, 61, 100)>>

\* the same 100 digits on one line
B_100 == <<E_75>>

\* the same with two blanks before and two after
B_padded == << <<" ", " ">> \o E_75 \o <<" ", " ">> >>

\* 101 digits on one line: no base64 string has that length
B_odd == <<E_75 \o <<"A">>>>

\* 104 base64 characters with a "=" in the middle
B_eq == <<SubSeq(E_75, 1, 50) \o <<"=">> \o SubSeq(E_75, 51, 100) \o <<"A", "A", "A">>>>

\* 150 characters: "vless://" and base64 digits after it
B_url == <<P_vless \o SubSeq(E_nodes, 1, 142)>>

\* 151 characters: base64 digits with a ":" among them
B_colon == <<SubSeq(E_nodes, 1, 70) \o <<":">> \o SubSeq(E_nodes, 71, 150)>>

Base64Texts == {B_b64, B_wrapped, B_101, B_100, B_padded, B_odd, B_eq, B_url, B_colon}

\* "vless://#<expire>:2027-01-01"
L_d27 == P_vless \o <<"#", "u5230", "u671F", ":", "2", "0", "2", "7", "-", "0", "1", "-", "0", "1">>
\* "ss://#<expire> 2026-05-05"
L_d0505 == P_ss \o <<"#", "u5230", "u671F", " ", "2", "0", "2", "6", "-", "0", "5", "-", "0", "5">>
\* "http://#<expire>:2020-01-01" (no node)
L_httpDated == <<"h", "t", "t", "p", ":", "/", "/", "#", "u5230", "u671F", ":", "2", "0", "2", "0", "-", "0", "1", "-", "0", "1">>
\* "vmess://#exp:1790000000" (2026-09-21)
L_unix == P_vmess \o <<"#", "e", "x", "p", ":", "1", "7", "9", "0", "0", "0", "0", "0", "0", "0">>
\* "vless://#<remain> 9 <days>"
L_days9 == P_vless \o <<"#", "u5269", "u4F59", " ", "9", " ", "u5929">>
\* "ss://#%E5%89%A9%E4%BD%992%E5%A4%A9" (the label "<remain>2<days>" percent-encoded)
L_ssDays == P_ss \o <<"#", "%", "E", "5", "%", "8", "9", "%", "A", "9", "%", "E", "4", "%", "B", "D", "%", "9", "9", "2", "%", "E", "5", "%", "A", "4", "%", "A", "9">>

DatedLines == {L_d27, L_d0505, L_trojan, L_httpDated, L_unix, L_vless}

\* the bodies of three different lines of DatedLines, in every order
DatedTexts ==
    {t \in DatedLines \X DatedLines \X DatedLines :
        t[1] # t[2] /\ t[1] # t[3] /\ t[2] # t[3]}

\* bodies with the days marker, raw and percent-encoded
DaysTexts ==
    {<<L_days9, L_vmess>>, <<L_vmess, L_days9, L_trojan>>, <<L_ssDays>>, <<L_ssDays, L_days9>>,
     <<L_unix, L_trojan>>}

\* the bodies served in the mode "bodies"
BodyTexts == Base64Texts \cup DatedTexts \cup DaysTexts

(***************************************************************************)
(* The labels parseNodeName is applied to: an expire part, an exp: part    *)
(* and a traffic part, each absent, well-formed or malformed, in a row.    *)
(***************************************************************************)
\* the expire parts:
\* "", "<expire>:2026-05-04", "<expire> 2026-5-04"
ExpireParts ==
    { <<>>,
      <<"u5230", "u671F", ":", "2", "0", "2", "6", "-", "0", "5", "-", "0", "4">>,
      <<"u5230", "u671F", " ", "2", "0", "2", "6", "-", "5", "-", "0", "4">> }

\* the exp: parts (10, 9, 13, 11 digits, 13 with leading zeros, 17):
\* "", "exp:1700000000", "exp:170000000", "EXP:1700000000000", "exp:17000000000", "exp:0001700000000", "exp:99999999999999999"
UnixParts ==
    { <<>>,
      <<"e", "x", "p", ":", "1", "7", "0", "0", "0", "0", "0", "0", "0", "0">>,
      <<"e", "x", "p", ":", "1", "7", "0", "0", "0", "0", "0", "0", "0">>,
      <<"E", "X", "P", ":", "1", "7", "0", "0", "0", "0", "0", "0", "0", "0", "0", "0", "0">>,
      <<"e", "x", "p", ":", "1", "7", "0", "0", "0", "0", "0", "0", "0", "0", "0">>,
      <<"e", "x", "p", ":", "0", "0", "0", "1", "7", "0", "0", "0", "0", "0", "0", "0", "0">>,
      <<"e", "x", "p", ":", "9", "9", "9", "9", "9", "9", "9", "9", "9", "9", "9", "9", "9", "9", "9", "9", "9">> }

\* the traffic parts:
\* "", "<remain>:1.5GB", "<remain>:.GB", "<remain>2 t", "<remain>:5"
TrafficParts ==
    { <<>>,
      <<"u5269", "u4F59", ":", "1", ".", "5", "G", "B">>,
      <<"u5269", "u4F59", ":", ".", "G", "B">>,
      <<"u5269", "u4F59", "2", " ", "t">>,
      <<"u5269", "u4F59", ":", "5">> }

Usernames == {"ua", "ub"}

\* storage.list: the keys in insertion order
UserOrder == <<"ua", "ub">>

CallIds == {1, 2}

(***************************************************************************)
(* State.  The store is one variable per key:                              *)
(*   syncResult  sync:result        syncLogs  sync:logs                    *)
(*   userStore   user:<username>    autoSync  config:auto_sync             *)
(*   substore    config:substore                                           *)
(* each an optional value.  calls holds the invocations in progress, one   *)
(* record per call slot, with the position of each (pc) at its current     *)
(* await.                                                                  *)
(***************************************************************************)
VARIABLES
    mode,        \* "single": one invocation, on every body of at most MaxLines lines
                 \* "fault":  one invocation, on a store whose operations may reject
                 \* "global": global syncs and status reads, interleaved
                 \* "users":  two operations on the user records, interleaved
                 \* "admin":  a user's sync beside an update or a deletion of users
                 \* "parse":  one call of parseNodeName, on every label of the parts
                 \* "bodies": one sync, on the base64, dated and days-marker bodies
    env,         \* the environment: [SUBSTORE_SHARE_BASE, SYNC_SECRET]
    syncResult,
    syncLogs,
    userStore,
    autoSync,
    substore,
    now,         \* the clock: it advances when an invocation starts
    calls,
    runs,        \* invocations started so far
    history,     \* the outcomes of the global syncs, in the order they returned
    overlapped   \* some global sync started while another one was running

vars == <<mode, env, syncResult, syncLogs, userStore, autoSync, substore,
          now, calls, runs, history, overlapped>>

store == <<syncResult, syncLogs, userStore, autoSync, substore>>

\* a message that leaves the status out
StatusMessageNoCode(st) == <<"Sub-Store returned an error, the instance may be under maintenance">>

\* the error texts (the first is "Sub-Store <returned> ${status}, ..." in the source)
StatusMessage(st) == <<"Sub-Store returned ", st, ", the instance may be under maintenance">>
HttpMessage(st)   == <<"HTTP ", st>>
FetchMessage(why) == IF why = "abort" THEN <<"This operation was aborted">>
                                      ELSE <<"fetch failed">>
StorageMessage    == <<"storage operation failed">>

FailEntry(msg) == [success |-> FALSE, nodeCount |-> Absent, error |-> Some(msg)]
OkEntry(n)     == [success |-> TRUE, nodeCount |-> Some(n), error |-> Absent]

Stamped(e, ts) ==
    [timestamp |-> ts, success |-> e.success, nodeCount |-> e.nodeCount, error |-> e.error]

\* (await storage.get(key)) || []
OrEmpty(v) == IF v = Absent THEN <<>> ELSE v[1]

\* a logSync that never cuts the log
LogsAfterUncut(logs, e, ts) == <<Stamped(e, ts)>> \o logs

\* a logSync that pushes the entry at the tail
LogsAfterAppended(logs, e, ts) ==
    LET pushed == Append(logs, Stamped(e, ts))
    IN  IF Len(pushed) > MaxLogs THEN SubSeq(pushed, 1, MaxLogs) ELSE pushed

\* logSync between its get and its set: unshift the entry, keep the first 10
LogsAfter(logs, e, ts) ==
    LET unshifted == <<Stamped(e, ts)>> \o logs
    IN  IF Len(unshifted) > MaxLogs THEN SubSeq(unshifted, 1, MaxLogs) ELSE unshifted

ZeroCounts == [success |-> 0, failed |-> 0, synced |-> 0]

IdleCall ==
    [kind |-> "idle", pc |-> "idle", timer |-> FALSE, alone |-> TRUE, pre |-> <<>>,
     text |-> <<>>, entry |-> <<>>, inCatch |-> FALSE, logs |-> <<>>, res |-> <<>>,
     ret |-> <<>>, user |-> <<>>, baseUrl |-> "", keys |-> <<>>, idx |-> 0,
     counts |-> ZeroCounts, synced |-> <<>>, status |-> "",
     fetches |-> 0,          \* the fetches the call has issued so far
     req |-> <<>>]           \* the inputs of the request, when a route took it

Active(c) == calls[c].pc \notin {"idle", "done", "threw"}

FailChoices == IF mode = "fault" THEN BOOLEAN ELSE {FALSE}

Texts ==
    IF mode = "single" THEN AllTexts
    ELSE IF mode = "bodies" THEN BodyTexts
    ELSE SampleTexts

\* the statuses an upstream answers with, and the ways a fetch rejects
Statuses == IF mode = "single" THEN {"503", "404"} ELSE {"503"}

Rejections == IF mode = "single" THEN {"network", "abort"} ELSE {"abort"}

\* calls interleave in the modes "global" and "users" (there, one
\* invocation per slot); the other modes run one invocation
RunLimit ==
    IF mode = "global" THEN MaxRuns
    ELSE IF mode \in {"users", "admin"} THEN Cardinality(CallIds)
    ELSE 1

\* a slot takes a new invocation
CanStart(c) ==
    /\ calls[c].pc = "idle"
    /\ runs < RunLimit
    /\ mode \in {"single", "fault", "parse", "bodies"} => c = 1
    /\ mode \in {"users", "admin"} => c = runs + 1

Snapshot ==
    [result |-> syncResult, logs |-> syncLogs, users |-> userStore, auto |-> autoSync,
     sub |-> substore]

\* calls after slot c starts as `call`
Started(c, call) ==
    [d \in CallIds |->
        IF d = c
        THEN [call EXCEPT !.alone = \A o \in CallIds \ {c} : ~Active(o),
                          !.pre   = Some(Snapshot)]
        ELSE IF Active(d) THEN [calls[d] EXCEPT !.alone = FALSE]
        ELSE calls[d]]

(***************************************************************************)
(* Global sync: syncSubscription and logSync (sync.ts).  Each action is    *)
(* the code from one await to the next storage operation or fetch; f1 and  *)
(* f2 say whether the storage operations the action issues reject.         *)
(***************************************************************************)
\* the catch block up to logSync's storage.get (which rejects when f)
Caught(call, msg, f) ==
    IF f
    THEN [call EXCEPT !.pc = "threw", !.timer = FALSE]
    ELSE [call EXCEPT !.pc = "logput", !.timer = FALSE, !.inCatch = TRUE,
                      !.entry = Some(FailEntry(msg)), !.logs = OrEmpty(syncLogs),
                      !.ret = Some([success |-> FALSE, error |-> msg])]

\* lines 41-63: the timer is set and the fetch issued
GStart(c) ==
    /\ CanStart(c)
    /\ calls' = Started(c, [IdleCall EXCEPT !.kind = "global", !.pc = "fetch", !.timer = TRUE,
                                                !.fetches = 1])
    /\ runs' = runs + 1
    /\ now' = now + 1
    /\ overlapped' = (overlapped \/ \E o \in CallIds \ {c} : Active(o) /\ calls[o].kind = "global")
    /\ UNCHANGED <<mode, env, store, history>>

\* the token query parameter of a request: absent, the secret, another text
Tokens == {Absent, Some("s3cret"), Some("guess")}

\* GET /sync (api.ts 154-166): the token is compared with env.SYNC_SECRET,
\* and syncSubscription called (up to its fetch) when they are equal
ApiSync(c, token) ==
    /\ CanStart(c)
    /\ calls' = Started(c,
            IF token # env.SYNC_SECRET
            THEN [IdleCall EXCEPT !.kind = "api", !.pc = "done", !.req = Some([token |-> token]),
                                  !.ret = Some([status |-> 403])]
            ELSE [IdleCall EXCEPT !.kind = "global", !.pc = "fetch", !.timer = TRUE,
                                  !.fetches = 1, !.req = Some([token |-> token])])
    /\ runs' = runs + 1
    /\ now' = now + 1
    /\ overlapped' = (overlapped \/ \E o \in CallIds \ {c} : Active(o) /\ calls[o].kind = "global")
    /\ UNCHANGED <<mode, env, store, history>>

\* the bodies served to a global sync (a sync the route started is served
\* the sample bodies)
GTexts(c) == IF calls[c].req # Absent THEN SampleTexts ELSE Texts

\* lines 64-77: the fetch resolves with a 2xx response; its text is awaited
GFetchOk(c, text) ==
    /\ calls[c].kind = "global" /\ calls[c].pc = "fetch"
    /\ calls' = [calls EXCEPT ![c] = [@ EXCEPT !.pc = "text", !.timer = FALSE, !.text = text]]
    /\ UNCHANGED <<mode, env, store, now, runs, history, overlapped>>

\* lines 64-74 up to logSync's storage.get: the fetch resolves with status st
GFetchStatus(c, st, f1, f2) ==
    /\ calls[c].kind = "global" /\ calls[c].pc = "fetch"
    /\ calls' = [calls EXCEPT ![c] =
            IF f1 THEN Caught([@ EXCEPT !.status = st], StorageMessage, f2)
            ELSE [@ EXCEPT !.pc = "logput", !.timer = FALSE, !.status = st,
                           !.entry = Some(FailEntry(StatusMessage(st))),
                           !.logs = OrEmpty(syncLogs),
                           !.ret = Some([success |-> FALSE, error |-> StatusMessage(st)])]]
    /\ UNCHANGED <<mode, env, store, now, runs, history, overlapped>>

\* a sync whose timer is cleared after a fetch that resolved only
GFetchRejectPending(c, why, f2) ==
    /\ calls[c].kind = "global" /\ calls[c].pc = "fetch"
    /\ calls' = [calls EXCEPT ![c] = [Caught(@, FetchMessage(why), f2) EXCEPT !.timer = TRUE]]
    /\ UNCHANGED <<mode, env, store, now, runs, history, overlapped>>

\* lines 64-66 and 171-174: the fetch rejects (network error, or the abort at the timeout)
GFetchReject(c, why, f2) ==
    /\ calls[c].kind = "global" /\ calls[c].pc = "fetch"
    /\ calls' = [calls EXCEPT ![c] = Caught(@, FetchMessage(why), f2)]
    /\ UNCHANGED <<mode, env, store, now, runs, history, overlapped>>

\* a sync that keeps the stored traffic total when the new body has none
GProcessKeeping(c, f1, f2) ==
    /\ calls[c].kind = "global" /\ calls[c].pc = "text"
    /\ LET fresh  == SyncResultOf(TextUsed(calls[c].text), now)
           result == IF syncResult # Absent /\ fresh.totalRemainGB = Absent
                     THEN [fresh EXCEPT !.totalRemainGB = syncResult[1].totalRemainGB]
                     ELSE fresh
       IN  IF f1
           THEN /\ calls' = [calls EXCEPT ![c] = Caught(@, StorageMessage, f2)]
                /\ UNCHANGED syncResult
           ELSE /\ syncResult' = Some(result)
                /\ calls' = [calls EXCEPT ![c] = [@ EXCEPT !.pc = "stored", !.res = Some(result)]]
    /\ UNCHANGED <<mode, env, syncLogs, userStore, autoSync, substore, now, runs, history, overlapped>>

\* lines 79-153: the text is decoded when it is taken for base64, parsed,
\* and the result stored
GProcess(c, f1, f2) ==
    /\ calls[c].kind = "global" /\ calls[c].pc = "text"
    /\ LET result == SyncResultOf(TextUsed(calls[c].text), now)
       IN  IF f1
           THEN /\ calls' = [calls EXCEPT ![c] = Caught(@, StorageMessage, f2)]
                /\ UNCHANGED syncResult
           ELSE /\ syncResult' = Some(result)
                /\ calls' = [calls EXCEPT ![c] = [@ EXCEPT !.pc = "stored", !.res = Some(result)]]
    /\ UNCHANGED <<mode, env, syncLogs, userStore, autoSync, substore, now, runs, history, overlapped>>

\* lines 156-159 up to logSync's storage.get
GLogGet(c, f1, f2) ==
    /\ calls[c].kind = "global" /\ calls[c].pc = "stored"
    /\ LET result  == calls[c].res[1]
           invalid == InvalidCountOf(TextUsed(calls[c].text))
       IN  calls' = [calls EXCEPT ![c] =
              IF f1 THEN Caught(@, StorageMessage, f2)
              ELSE [@ EXCEPT !.pc = "logput",
                             !.entry = Some(OkEntry(result.nodeCount)),
                             !.logs = OrEmpty(syncLogs),
                             !.ret = Some([success        |-> TRUE,
                                           nodeCount      |-> result.nodeCount,
                                           earliestExpire |-> result.earliestExpire,
                                           totalRemainGB  |-> result.totalRemainGB,
                                           invalidLines   |-> IF invalid > 0 THEN Some(invalid)
                                                              ELSE Absent])]]
    /\ UNCHANGED <<mode, env, store, now, runs, history, overlapped>>

\* logSync lines 216-226: the entry is put in front and the log stored
GLogPut(c, f1, f2) ==
    /\ calls[c].kind = "global" /\ calls[c].pc = "logput"
    /\ IF f1
       THEN /\ calls' = [calls EXCEPT ![c] =
                   IF @.inCatch THEN [@ EXCEPT !.pc = "threw"]
                   ELSE Caught(@, StorageMessage, f2)]
            /\ UNCHANGED syncLogs
       ELSE /\ syncLogs' = Some(LogsAfter(calls[c].logs, calls[c].entry[1], now))
            /\ calls' = [calls EXCEPT ![c] = [@ EXCEPT !.pc = "logged"]]
    /\ UNCHANGED <<mode, env, syncResult, userStore, autoSync, substore, now, runs, history, overlapped>>

OutcomeOf(ret) ==
    IF ret.success THEN OkEntry(ret.nodeCount) ELSE FailEntry(ret.error)

\* the return statement after logSync: lines 73, 164-170, 175
GReturn(c) ==
    /\ calls[c].kind = "global" /\ calls[c].pc = "logged"
    /\ calls' = [calls EXCEPT ![c] = [@ EXCEPT !.pc = "done"]]
    /\ history' = Append(history, OutcomeOf(calls[c].ret[1]))
    /\ UNCHANGED <<mode, env, store, now, runs, overlapped>>

(***************************************************************************)
(* getSyncStatus (sync.ts).                                                *)
(***************************************************************************)
\* line 195: storage.get(SYNC_RESULT)
SStart(c, f1) ==
    /\ CanStart(c)
    /\ calls' = Started(c, IF f1 THEN [IdleCall EXCEPT !.kind = "status", !.pc = "threw"]
                           ELSE [IdleCall EXCEPT !.kind = "status", !.pc = "statuslogs",
                                                 !.res = syncResult])
    /\ runs' = runs + 1
    /\ now' = now + 1
    /\ UNCHANGED <<mode, env, store, history, overlapped>>

\* a status that takes success from the presence of a stored result
SLogsFromResult(c, f1) ==
    /\ calls[c].kind = "status" /\ calls[c].pc = "statuslogs"
    /\ LET result == calls[c].res
           logs   == OrEmpty(syncLogs)
       IN  calls' = [calls EXCEPT ![c] =
              IF f1 THEN [@ EXCEPT !.pc = "threw"]
              ELSE [@ EXCEPT !.pc = "done",
                     !.ret = Some([lastSync    |-> IF result = Absent THEN Absent
                                                   ELSE Some(result[1].lastSync),
                                   nodeCount   |-> IF result = Absent THEN 0
                                                   ELSE result[1].nodeCount,
                                   success     |-> result # Absent,
                                   latestError |-> IF logs = <<>> THEN Absent
                                                   ELSE logs[1].error])]]
    /\ UNCHANGED <<mode, env, store, now, runs, history, overlapped>>

\* lines 196-204: storage.get(SYNC_LOGS) and the status returned
SLogs(c, f1) ==
    /\ calls[c].kind = "status" /\ calls[c].pc = "statuslogs"
    /\ LET result == calls[c].res
           logs   == OrEmpty(syncLogs)
       IN  calls' = [calls EXCEPT ![c] =
              IF f1 THEN [@ EXCEPT !.pc = "threw"]
              ELSE [@ EXCEPT !.pc = "done",
                     !.ret = Some([lastSync    |-> IF result = Absent THEN Absent
                                                   ELSE Some(result[1].lastSync),
                                   nodeCount   |-> IF result = Absent THEN 0
                                                   ELSE result[1].nodeCount,
                                   success     |-> IF logs = <<>> THEN TRUE
                                                   ELSE logs[1].success,
                                   latestError |-> IF logs = <<>> THEN Absent
                                                   ELSE logs[1].error])]]
    /\ UNCHANGED <<mode, env, store, now, runs, history, overlapped>>

(***************************************************************************)
(* parseNodeName (node-name parser), called on its own.                    *)
(***************************************************************************)
\* the call returns the ParsedNodeInfo of the label made of the three
\* parts, or raises
ParseLabel(c, expire, unix, traffic) ==
    /\ CanStart(c)
    /\ LET label == expire \o unix \o traffic
           base  == [IdleCall EXCEPT !.kind = "parse", !.text = <<label>>,
                        !.req = Some([expire |-> expire, unix |-> unix, traffic |-> traffic])]
       IN  calls' = Started(c,
              IF parseNodeNameRaises(label) THEN [base EXCEPT !.pc = "threw"]
              ELSE [base EXCEPT !.pc = "done", !.ret = Some(parseNodeName(label))])
    /\ runs' = runs + 1
    /\ UNCHANGED <<mode, env, store, now, history, overlapped>>

(***************************************************************************)
(* The environment of the calls.                                           *)
(***************************************************************************)
\* the caller takes the result (or the exception): the slot is free again
Respond(c) ==
    /\ calls[c].pc \in {"done", "threw"}
    /\ calls' = [calls EXCEPT ![c] = IdleCall]
    /\ UNCHANGED <<mode, env, store, now, runs, history, overlapped>>

(***************************************************************************)
(* Single-user sync: syncUserSubscription (scheduler), called by the       *)
(* admin route POST /users/:username/sync and by syncAllUsers.             *)
(***************************************************************************)
\* substoreConfig?.baseUrl || env.SUBSTORE_SHARE_BASE || ''
ResolveBaseUrl(config) ==
    IF config # Absent /\ config[1].baseUrl # "" THEN config[1].baseUrl
    ELSE env.SUBSTORE_SHARE_BASE

Bound(user) == user # Absent /\ user[1].subscriptionConfig # Absent

\* a syncAllUsers that leaves its loop at the first failed user
InnerReturnedStopping(call, result) ==
    LET seen == Append(call.synced, [user |-> call.user[1].username,
                                     ok   |-> result.success,
                                     text |-> call.text])
    IN  IF call.kind = "user"
        THEN [call EXCEPT !.pc = "done", !.timer = FALSE, !.ret = Some(result), !.synced = seen]
        ELSE [call EXCEPT !.pc = "bnext", !.timer = FALSE, !.synced = seen,
                          !.idx = IF result.success THEN @ + 1 ELSE Len(call.keys) + 1,
                          !.counts = IF result.success
                                     THEN [@ EXCEPT !.success = @ + 1]
                                     ELSE [@ EXCEPT !.failed = @ + 1]]

\* syncUserSubscription has returned `result` to its caller: the route
\* answers with it, syncAllUsers counts it and goes on with the next key
InnerReturned(call, result) ==
    LET seen == Append(call.synced, [user |-> call.user[1].username,
                                     ok   |-> result.success,
                                     text |-> call.text])
    IN  IF call.kind = "user"
        THEN [call EXCEPT !.pc = "done", !.timer = FALSE, !.ret = Some(result), !.synced = seen]
        ELSE [call EXCEPT !.pc = "bnext", !.timer = FALSE, !.synced = seen,
                          !.idx = @ + 1,
                          !.counts = IF result.success
                                     THEN [@ EXCEPT !.success = @ + 1]
                                     ELSE [@ EXCEPT !.failed = @ + 1]]

\* admin.ts 313-325: the route reads the user
URoute(c, u, f1) ==
    /\ CanStart(c)
    /\ LET user == userStore[u]
           base == [IdleCall EXCEPT !.kind = "user", !.req = Some([username |-> u])]
       IN  calls' = Started(c,
              IF f1 THEN [base EXCEPT !.pc = "threw"]
              ELSE IF user = Absent
                   THEN [base EXCEPT !.pc = "done", !.ret = Some([status |-> 404])]
              ELSE IF ~Bound(user)
                   THEN [base EXCEPT !.pc = "done", !.ret = Some([status |-> 400])]
              ELSE [base EXCEPT !.pc = "ucfg", !.user = user])
    /\ runs' = runs + 1
    /\ now' = now + 1
    /\ UNCHANGED <<mode, env, store, history, overlapped>>

\* admin.ts 327-341 and syncUserSubscription up to its fetch
UCfg(c, f1) ==
    /\ calls[c].kind = "user" /\ calls[c].pc = "ucfg"
    /\ LET baseUrl == ResolveBaseUrl(substore)
       IN  calls' = [calls EXCEPT ![c] =
              IF f1 THEN [@ EXCEPT !.pc = "threw"]
              ELSE IF baseUrl = ""
                   THEN [@ EXCEPT !.pc = "done", !.ret = Some([status |-> 400])]
              ELSE [@ EXCEPT !.pc = "fetch", !.timer = TRUE, !.baseUrl = baseUrl,
                             !.fetches = @ + 1]]
    /\ UNCHANGED <<mode, env, store, now, runs, history, overlapped>>

\* the error text of line 332
UnboundMessage == <<"the user has no subscription bound">>

\* the base URLs a caller passes to syncUserSubscription
BaseUrls == {"https://substore.example"}

\* a syncUserSubscription that goes on to its fetch without the check of lines 331-333
UDirectUnchecked(c, u, baseUrl) ==
    /\ CanStart(c)
    /\ userStore[u] # Absent
    /\ calls' = Started(c, [IdleCall EXCEPT !.kind = "user", !.user = userStore[u],
                                            !.pc = "fetch", !.timer = TRUE,
                                            !.baseUrl = baseUrl, !.fetches = 1])
    /\ runs' = runs + 1
    /\ now' = now + 1
    /\ UNCHANGED <<mode, env, store, history, overlapped>>

\* syncUserSubscription (app.ts 326-354) called with the record of a stored
\* user: it returns at once when the record has no binding, and issues its
\* fetch otherwise
UDirect(c, u, baseUrl) ==
    /\ CanStart(c)
    /\ userStore[u] # Absent
    /\ LET base == [IdleCall EXCEPT !.kind = "user", !.user = userStore[u]]
       IN  calls' = Started(c,
              IF userStore[u][1].subscriptionConfig = Absent
              THEN [base EXCEPT !.pc = "done",
                                !.ret = Some([success |-> FALSE, error |-> UnboundMessage])]
              ELSE [base EXCEPT !.pc = "fetch", !.timer = TRUE, !.baseUrl = baseUrl,
                                !.fetches = 1])
    /\ runs' = runs + 1
    /\ now' = now + 1
    /\ UNCHANGED <<mode, env, store, history, overlapped>>

UserCall(c) == calls[c].kind \in {"user", "bulk"}

\* the bodies served to a user's sync (the sample bodies, but for a sync
\* the route started)
UserTexts(c) == IF calls[c].kind = "user" /\ calls[c].req # Absent THEN Texts ELSE SampleTexts

\* the fetch resolves with a 2xx response; its text is awaited
UFetchOk(c, text) ==
    /\ UserCall(c) /\ calls[c].pc = "fetch"
    /\ calls' = [calls EXCEPT ![c] = [@ EXCEPT !.pc = "text", !.timer = FALSE, !.text = text]]
    /\ UNCHANGED <<mode, env, store, now, runs, history, overlapped>>

\* the fetch resolves with status st: { success: false, error: `HTTP ${status}` }
UFetchStatus(c, st) ==
    /\ UserCall(c) /\ calls[c].pc = "fetch"
    /\ calls' = [calls EXCEPT ![c] =
            InnerReturned([@ EXCEPT !.status = st], [success |-> FALSE, error |-> HttpMessage(st)])]
    /\ UNCHANGED <<mode, env, store, now, runs, history, overlapped>>

\* the fetch rejects: the catch block returns the message
UFetchReject(c, why) ==
    /\ UserCall(c) /\ calls[c].pc = "fetch"
    /\ calls' = [calls EXCEPT ![c] =
            InnerReturned(@, [success |-> FALSE, error |-> FetchMessage(why)])]
    /\ UNCHANGED <<mode, env, store, now, runs, history, overlapped>>

\* a sync that stores, with its own record, the other records as they
\* were when it started
UProcessStoringAll(c, f1) ==
    /\ UserCall(c) /\ calls[c].pc = "text"
    /\ LET result == UserSyncResultOf(TextUsed(calls[c].text), now, BaseDay + now)
           user   == [calls[c].user[1] EXCEPT !.lastSyncResult = Some(result)]
       IN  IF f1
           THEN /\ calls' = [calls EXCEPT ![c] =
                       InnerReturned(@, [success |-> FALSE, error |-> StorageMessage])]
                /\ UNCHANGED userStore
           ELSE /\ userStore' = [calls[c].pre[1].users EXCEPT ![user.username] = Some(user)]
                /\ calls' = [calls EXCEPT ![c] =
                       [@ EXCEPT !.pc = "ustored", !.user = Some(user), !.res = Some(result)]]
    /\ UNCHANGED <<mode, env, syncResult, syncLogs, autoSync, substore, now, runs, history, overlapped>>

\* the text is decoded when it is taken for base64 and parsed,
\* lastSyncResult is set and the user record stored
UProcess(c, f1) ==
    /\ UserCall(c) /\ calls[c].pc = "text"
    /\ LET result == UserSyncResultOf(TextUsed(calls[c].text), now, BaseDay + now)
           user   == [calls[c].user[1] EXCEPT !.lastSyncResult = Some(result)]
       IN  IF f1
           THEN /\ calls' = [calls EXCEPT ![c] =
                       InnerReturned(@, [success |-> FALSE, error |-> StorageMessage])]
                /\ UNCHANGED userStore
           ELSE /\ userStore' = [userStore EXCEPT ![user.username] = Some(user)]
                /\ calls' = [calls EXCEPT ![c] =
                       [@ EXCEPT !.pc = "ustored", !.user = Some(user), !.res = Some(result)]]
    /\ UNCHANGED <<mode, env, syncResult, syncLogs, autoSync, substore, now, runs, history, overlapped>>

\* return { success: true, nodeCount }
UReturn(c) ==
    /\ UserCall(c) /\ calls[c].pc = "ustored"
    /\ calls' = [calls EXCEPT ![c] =
            InnerReturned(@, [success |-> TRUE, nodeCount |-> calls[c].res[1].nodeCount])]
    /\ UNCHANGED <<mode, env, store, now, runs, history, overlapped>>

(***************************************************************************)
(* Bulk sync: syncAllUsers (scheduler).                                    *)
(***************************************************************************)
\* storage.list(USERS_PREFIX)
ListUsers == SelectSeq(UserOrder, LAMBDA u : userStore[u] # Absent)

\* line 432: storage.get(SUBSTORE_CONFIG)
BStart(c, f1) ==
    /\ CanStart(c)
    /\ calls' = Started(c, IF f1 THEN [IdleCall EXCEPT !.kind = "bulk", !.pc = "threw"]
                           ELSE [IdleCall EXCEPT !.kind = "bulk", !.pc = "blist",
                                                 !.res = substore])
    /\ runs' = runs + 1
    /\ now' = now + 1
    /\ UNCHANGED <<mode, env, store, history, overlapped>>

\* a syncAllUsers without the check of lines 435-438
BListUnchecked(c, f1) ==
    /\ calls[c].kind = "bulk" /\ calls[c].pc = "blist"
    /\ LET baseUrl == ResolveBaseUrl(calls[c].res)
       IN  calls' = [calls EXCEPT ![c] =
              IF f1 THEN [@ EXCEPT !.pc = "threw"]
              ELSE [@ EXCEPT !.pc = "bnext", !.baseUrl = baseUrl, !.keys = ListUsers, !.idx = 1]]
    /\ UNCHANGED <<mode, env, store, now, runs, history, overlapped>>

\* lines 433-443: the base URL is resolved and the user keys listed
BList(c, f1) ==
    /\ calls[c].kind = "bulk" /\ calls[c].pc = "blist"
    /\ LET baseUrl == ResolveBaseUrl(calls[c].res)
       IN  calls' = [calls EXCEPT ![c] =
              IF baseUrl = ""
              THEN [@ EXCEPT !.pc = "done",
                             !.ret = Some([total |-> 0, success |-> 0, failed |-> 0, synced |-> 0])]
              ELSE IF f1 THEN [@ EXCEPT !.pc = "threw"]
              ELSE [@ EXCEPT !.pc = "bnext", !.baseUrl = baseUrl, !.keys = ListUsers, !.idx = 1]]
    /\ UNCHANGED <<mode, env, store, now, runs, history, overlapped>>

\* a syncAllUsers that reads the auto-sync configuration at its last key
BNextStampingEarly(c, f1) ==
    /\ calls[c].kind = "bulk" /\ calls[c].pc = "bnext"
    /\ LET call == calls[c]
           user == userStore[call.keys[call.idx]]
       IN  calls' = [calls EXCEPT ![c] =
              IF f1 THEN [@ EXCEPT !.pc = "threw"]
              ELSE IF call.idx >= Len(call.keys)
                   THEN [@ EXCEPT !.pc = "bcfg", !.res = autoSync]
              ELSE IF Bound(user)
                   THEN [@ EXCEPT !.pc = "fetch", !.timer = TRUE, !.user = user, !.text = <<>>,
                                  !.status = "", !.fetches = @ + 1,
                                  !.counts = [@ EXCEPT !.synced = @ + 1]]
              ELSE [@ EXCEPT !.idx = @ + 1]]
    /\ UNCHANGED <<mode, env, store, now, runs, history, overlapped>>

\* a syncAllUsers that counts in synced the users its sync succeeded for
BNextUncounted(c, f1) ==
    /\ calls[c].kind = "bulk" /\ calls[c].pc = "bnext"
    /\ LET call == calls[c]
           user == userStore[call.keys[call.idx]]
       IN  calls' = [calls EXCEPT ![c] =
              IF f1 THEN [@ EXCEPT !.pc = "threw"]
              ELSE IF call.idx > Len(call.keys)
                   THEN [@ EXCEPT !.pc = "bcfg", !.res = autoSync,
                                  !.counts = [@ EXCEPT !.synced = call.counts.success]]
              ELSE IF Bound(user)
                   THEN [@ EXCEPT !.pc = "fetch", !.timer = TRUE, !.user = user, !.text = <<>>,
                                  !.status = "", !.fetches = @ + 1]
              ELSE [@ EXCEPT !.idx = @ + 1]]
    /\ UNCHANGED <<mode, env, store, now, runs, history, overlapped>>

\* lines 445-449 and 459: the next user is read and, when bound, its sync
\* started; after the last key the auto-sync configuration is read
BNext(c, f1) ==
    /\ calls[c].kind = "bulk" /\ calls[c].pc = "bnext"
    /\ LET call == calls[c]
           user == userStore[call.keys[call.idx]]
       IN  calls' = [calls EXCEPT ![c] =
              IF f1 THEN [@ EXCEPT !.pc = "threw"]
              ELSE IF call.idx > Len(call.keys)
                   THEN [@ EXCEPT !.pc = "bcfg", !.res = autoSync]
              ELSE IF Bound(user)
                   THEN [@ EXCEPT !.pc = "fetch", !.timer = TRUE, !.user = user, !.text = <<>>,
                                  !.status = "", !.fetches = @ + 1,
                                  !.counts = [@ EXCEPT !.synced = @ + 1]]
              ELSE [@ EXCEPT !.idx = @ + 1]]
    /\ UNCHANGED <<mode, env, store, now, runs, history, overlapped>>

BulkReturn(call) ==
    [total   |-> Len(call.keys),
     success |-> call.counts.success,
     failed  |-> call.counts.failed,
     synced  |-> call.counts.synced]

\* a syncAllUsers that stores the configuration as it read it
BCfgUnstamped(c, f1) ==
    /\ calls[c].kind = "bulk" /\ calls[c].pc = "bcfg"
    /\ LET config == calls[c].res
       IN  IF config = Absent
           THEN /\ calls' = [calls EXCEPT ![c] =
                       [@ EXCEPT !.pc = "done", !.ret = Some(BulkReturn(calls[c]))]]
                /\ UNCHANGED autoSync
           ELSE IF f1
           THEN /\ calls' = [calls EXCEPT ![c] = [@ EXCEPT !.pc = "threw"]]
                /\ UNCHANGED autoSync
           ELSE /\ autoSync' = config
                /\ calls' = [calls EXCEPT ![c] = [@ EXCEPT !.pc = "bset"]]
    /\ UNCHANGED <<mode, env, syncResult, syncLogs, userStore, substore, now, runs, history, overlapped>>

\* lines 460-463: lastScheduledSync is written when the configuration exists
BCfg(c, f1) ==
    /\ calls[c].kind = "bulk" /\ calls[c].pc = "bcfg"
    /\ LET config == calls[c].res
       IN  IF config = Absent
           THEN /\ calls' = [calls EXCEPT ![c] =
                       [@ EXCEPT !.pc = "done", !.ret = Some(BulkReturn(calls[c]))]]
                /\ UNCHANGED autoSync
           ELSE IF f1
           THEN /\ calls' = [calls EXCEPT ![c] = [@ EXCEPT !.pc = "threw"]]
                /\ UNCHANGED autoSync
           ELSE /\ autoSync' = Some([config[1] EXCEPT !.lastScheduledSync = Some(now)])
                /\ calls' = [calls EXCEPT ![c] = [@ EXCEPT !.pc = "bset"]]
    /\ UNCHANGED <<mode, env, syncResult, syncLogs, userStore, substore, now, runs, history, overlapped>>

\* lines 467-472
BReturn(c) ==
    /\ calls[c].kind = "bulk" /\ calls[c].pc = "bset"
    /\ calls' = [calls EXCEPT ![c] = [@ EXCEPT !.pc = "done", !.ret = Some(BulkReturn(calls[c]))]]
    /\ UNCHANGED <<mode, env, store, now, runs, history, overlapped>>

(***************************************************************************)
(* The download of a user's subscription: GET /subscription/download       *)
(* (api.ts 259-339), for a logged-in ordinary user u.                      *)
(***************************************************************************)
\* lines 295-313: the user is read, the timer set and the fetch issued on
\* the URL made from env.SUBSTORE_SHARE_BASE
DStart(c, u, f1) ==
    /\ CanStart(c)
    /\ LET user == userStore[u]
           base == [IdleCall EXCEPT !.kind = "download", !.req = Some([username |-> u])]
       IN  calls' = Started(c,
              IF f1 THEN [base EXCEPT !.pc = "threw"]
              ELSE IF ~Bound(user)
                   THEN [base EXCEPT !.pc = "done", !.ret = Some([status |-> 404])]
              ELSE [base EXCEPT !.pc = "fetch", !.timer = TRUE, !.user = user, !.fetches = 1,
                                !.baseUrl = env.SUBSTORE_SHARE_BASE])
    /\ runs' = runs + 1
    /\ now' = now + 1
    /\ UNCHANGED <<mode, env, store, history, overlapped>>

\* lines 314-334: a 2xx response; the timer is cleared and the text sent
DFetchOk(c, text) ==
    /\ calls[c].kind = "download" /\ calls[c].pc = "fetch"
    /\ calls[c].baseUrl # ""
    /\ calls' = [calls EXCEPT ![c] =
            [@ EXCEPT !.pc = "done", !.timer = FALSE, !.text = text,
                      !.ret = Some([status |-> 200, body |-> text])]]
    /\ UNCHANGED <<mode, env, store, now, runs, history, overlapped>>

\* lines 314-318: a response of status st; the timer is cleared, the answer is 502
DFetchStatus(c, st) ==
    /\ calls[c].kind = "download" /\ calls[c].pc = "fetch"
    /\ calls[c].baseUrl # ""
    /\ calls' = [calls EXCEPT ![c] =
            [@ EXCEPT !.pc = "done", !.timer = FALSE, !.status = st,
                      !.ret = Some([status |-> 502, body |-> HttpMessage(st)])]]
    /\ UNCHANGED <<mode, env, store, now, runs, history, overlapped>>

\* lines 335-338: the fetch rejects (a URL without a base included); the
\* catch block answers 502 and the timer is left to fire
DFetchReject(c, why) ==
    /\ calls[c].kind = "download" /\ calls[c].pc = "fetch"
    /\ calls' = [calls EXCEPT ![c] =
            [@ EXCEPT !.pc = "done", !.ret = Some([status |-> 502, body |-> FetchMessage(why)])]]
    /\ UNCHANGED <<mode, env, store, now, runs, history, overlapped>>

(***************************************************************************)
(* The operations that rewrite a user record: login (auth.ts), the change  *)
(* of one's password (PUT /me/password) and the administrator's update     *)
(* (PUT /users/:username).  Each reads the whole record, changes fields of *)
(* its copy and stores the copy.                                           *)
(***************************************************************************)
\* the SHA-256 digest of a password, in hexadecimal
hashPassword(password) == <<"sha256", password>>

verifyPassword(password, hash) == hashPassword(password) = hash

\* the passwords typed: the one the users were created with, a new one, a
\* wrong one and one of fewer than six characters
PwOld   == <<"o", "l", "d", "p", "w", "1">>
PwNew   == <<"n", "e", "w", "p", "w", "2">>
PwWrong == <<"w", "r", "o", "n", "g", "3">>
PwShort == <<"a", "b", "c">>

\* login lines 116-119: an ordinary user's record is read
LStart(c, u, password, f1) ==
    /\ CanStart(c)
    /\ LET user == userStore[u]
           base == [IdleCall EXCEPT !.kind = "login",
                                    !.req = Some([username |-> u, password |-> password])]
       IN  calls' = Started(c,
              IF f1 THEN [base EXCEPT !.pc = "threw"]
              ELSE IF user = Absent
                   THEN [base EXCEPT !.pc = "done",
                                     !.ret = Some([success |-> FALSE, error |-> <<"no such user">>])]
              ELSE [base EXCEPT !.pc = "lverify", !.user = user])
    /\ runs' = runs + 1
    /\ now' = now + 1
    /\ UNCHANGED <<mode, env, store, history, overlapped>>

\* login lines 121-128: the password is verified, lastLogin set on the
\* record read and the record stored
LVerify(c, f1) ==
    /\ calls[c].kind = "login" /\ calls[c].pc = "lverify"
    /\ LET read == calls[c].user[1]
           user == [read EXCEPT !.lastLogin = Some(now)]
       IN  IF ~verifyPassword(calls[c].req[1].password, read.passwordHash)
           THEN /\ calls' = [calls EXCEPT ![c] =
                       [@ EXCEPT !.pc = "done",
                                 !.ret = Some([success |-> FALSE, error |-> <<"wrong password">>])]]
                /\ UNCHANGED userStore
           ELSE IF f1
           THEN /\ calls' = [calls EXCEPT ![c] = [@ EXCEPT !.pc = "threw"]]
                /\ UNCHANGED userStore
           ELSE /\ userStore' = [userStore EXCEPT ![user.username] = Some(user)]
                /\ calls' = [calls EXCEPT ![c] =
                       [@ EXCEPT !.pc = "wset", !.user = Some(user),
                                 !.ret = Some([success |-> TRUE, token |-> <<"token", user.username>>])]]
    /\ UNCHANGED <<mode, env, syncResult, syncLogs, autoSync, substore, now, runs, history, overlapped>>

\* PUT /me/password (api.ts 107-136) for the logged-in ordinary user u: the
\* body is checked and the record read
PStart(c, u, current, new, f1) ==
    /\ CanStart(c)
    /\ LET user == userStore[u]
           base == [IdleCall EXCEPT !.kind = "password",
                                    !.req = Some([username |-> u, currentPassword |-> current,
                                                  newPassword |-> new])]
       IN  calls' = Started(c,
              IF current = <<>> \/ new = <<>> \/ Len(new) < 6
              THEN [base EXCEPT !.pc = "done", !.ret = Some([status |-> 400])]
              ELSE IF f1 THEN [base EXCEPT !.pc = "threw"]
              ELSE IF user = Absent
                   THEN [base EXCEPT !.pc = "done", !.ret = Some([status |-> 404])]
              ELSE [base EXCEPT !.pc = "pverify", !.user = user])
    /\ runs' = runs + 1
    /\ now' = now + 1
    /\ UNCHANGED <<mode, env, store, history, overlapped>>

\* api.ts 138-146: the current password is verified, the new one hashed
\* into the record read and the record stored
PWrite(c, f1) ==
    /\ calls[c].kind = "password" /\ calls[c].pc = "pverify"
    /\ LET read == calls[c].user[1]
           user == [read EXCEPT !.passwordHash = hashPassword(calls[c].req[1].newPassword)]
       IN  IF ~verifyPassword(calls[c].req[1].currentPassword, read.passwordHash)
           THEN /\ calls' = [calls EXCEPT ![c] =
                       [@ EXCEPT !.pc = "done", !.ret = Some([status |-> 400])]]
                /\ UNCHANGED userStore
           ELSE IF f1
           THEN /\ calls' = [calls EXCEPT ![c] = [@ EXCEPT !.pc = "threw"]]
                /\ UNCHANGED userStore
           ELSE /\ userStore' = [userStore EXCEPT ![user.username] = Some(user)]
                /\ calls' = [calls EXCEPT ![c] =
                       [@ EXCEPT !.pc = "wset", !.user = Some(user),
                                 !.ret = Some([success |-> TRUE])]]
    /\ UNCHANGED <<mode, env, syncResult, syncLogs, autoSync, substore, now, runs, history, overlapped>>

\* the bodies of the administrator's update: each field is optional
NoChange ==
    [password |-> Absent, isAdmin |-> Absent, customNote |-> Absent,
     membershipLevel |-> Absent, subscriptionConfig |-> Absent]

Bodies ==
    { [NoChange EXCEPT !.password = Some(PwNew)],
      [NoChange EXCEPT !.subscriptionConfig = Some([collectionName |-> "col2", token |-> "t2"])],
      [NoChange EXCEPT !.isAdmin = Some(TRUE), !.customNote = Some("vip"),
                       !.membershipLevel = Some("gold")] }

\* body.field !== undefined ? body.field : the field as it is
Updated(field, value) == IF field = Absent THEN value ELSE field

\* admin.ts 154-172: the fields the body gives are set on the record
Patched(user, body) ==
    [user EXCEPT !.passwordHash = IF body.password = Absent THEN @
                                  ELSE hashPassword(body.password[1]),
                 !.isAdmin = IF body.isAdmin = Absent THEN @ ELSE body.isAdmin[1],
                 !.customNote = Updated(body.customNote, @),
                 !.membershipLevel = Updated(body.membershipLevel, @),
                 !.subscriptionConfig = Updated(body.subscriptionConfig, @)]

\* PUT /users/:username (admin.ts 141-157): the record is read
AStart(c, u, body, f1) ==
    /\ CanStart(c)
    /\ LET user == userStore[u]
           base == [IdleCall EXCEPT !.kind = "update",
                                    !.req = Some([username |-> u, body |-> body])]
       IN  calls' = Started(c,
              IF f1 THEN [base EXCEPT !.pc = "threw"]
              ELSE IF user = Absent
                   THEN [base EXCEPT !.pc = "done", !.ret = Some([status |-> 404])]
              ELSE [base EXCEPT !.pc = "aupdate", !.user = user])
    /\ runs' = runs + 1
    /\ now' = now + 1
    /\ UNCHANGED <<mode, env, store, history, overlapped>>

\* admin.ts 159-174: the record read is patched and stored
AWrite(c, f1) ==
    /\ calls[c].kind = "update" /\ calls[c].pc = "aupdate"
    /\ LET user == Patched(calls[c].user[1], calls[c].req[1].body)
       IN  IF f1
           THEN /\ calls' = [calls EXCEPT ![c] = [@ EXCEPT !.pc = "threw"]]
                /\ UNCHANGED userStore
           ELSE /\ userStore' = [userStore EXCEPT ![user.username] = Some(user)]
                /\ calls' = [calls EXCEPT ![c] =
                       [@ EXCEPT !.pc = "wset", !.user = Some(user),
                                 !.ret = Some([success |-> TRUE])]]
    /\ UNCHANGED <<mode, env, syncResult, syncLogs, autoSync, substore, now, runs, history, overlapped>>

\* DELETE /users/:username (admin.ts 182-187): the record is deleted, whether
\* it exists or not
XDelete(c, u, f1) ==
    /\ CanStart(c)
    /\ LET base == [IdleCall EXCEPT !.kind = "delete", !.req = Some([username |-> u])]
       IN  IF f1
           THEN /\ calls' = Started(c, [base EXCEPT !.pc = "threw"])
                /\ UNCHANGED userStore
           ELSE /\ calls' = Started(c, [base EXCEPT !.pc = "wset",
                                                    !.ret = Some([success |-> TRUE])])
                /\ userStore' = [userStore EXCEPT ![u] = Absent]
    /\ runs' = runs + 1
    /\ now' = now + 1
    /\ UNCHANGED <<mode, env, syncResult, syncLogs, autoSync, substore, history, overlapped>>

\* the answer after the record was stored or deleted (auth.ts 130-131,
\* api.ts 148, admin.ts 176 and 188)
WReturn(c) ==
    /\ calls[c].kind \in {"login", "password", "update", "delete"} /\ calls[c].pc = "wset"
    /\ calls' = [calls EXCEPT ![c] = [@ EXCEPT !.pc = "done"]]
    /\ UNCHANGED <<mode, env, store, now, runs, history, overlapped>>

(***************************************************************************)
(* Initial states: stores the program can have been left in.               *)
(***************************************************************************)
\* the record a global sync of "vless://#<remain>:1.5GB" stored at time 0
OldResult == SyncResultOf(<<L_vless>>, 0)

\* a log of n entries, newest first: that sync, then n - 1 failed ones
OldLogs(n) ==
    [i \in 1..n |->
        Stamped(IF i = n THEN OkEntry(OldResult.nodeCount)
                ELSE IF (n - i) % 2 = 1 THEN FailEntry(StatusMessage("503"))
                ELSE FailEntry(FetchMessage("network")), 0)]

OldUserResult == UserSyncResultOf(<<L_vless>>, 0, BaseDay)

UserRecord(name, bound, synced) ==
    [username           |-> name,
     subscriptionConfig |-> IF bound THEN Some([collectionName |-> "col", token |-> name])
                            ELSE Absent,
     lastSyncResult     |-> IF synced THEN Some(OldUserResult) ELSE Absent,
     passwordHash       |-> hashPassword(PwOld),
     isAdmin            |-> FALSE,
     lastLogin          |-> Absent,
     customNote         |-> Absent,
     membershipLevel    |-> Absent]

AutoSyncRecord == [enabled |-> TRUE, intervalMinutes |-> 60, lastScheduledSync |-> Absent]

StoreConfigs ==
    { \* a new installation with two bound users
      [result |-> Absent, logs |-> Absent,
       users |-> [u \in Usernames |-> Some(UserRecord(u, TRUE, u = "ub"))],
       auto |-> Some(AutoSyncRecord),
       substore |-> Some([baseUrl |-> "https://substore.example"]),
       base |-> "https://env.example", secret |-> Some("s3cret")],
      \* nine syncs logged, one user unbound, no stored configuration
      [result |-> Some(OldResult), logs |-> Some(OldLogs(MaxLogs - 1)),
       users |-> [u \in Usernames |-> Some(UserRecord(u, u = "ua", u = "ua"))],
       auto |-> Absent, substore |-> Absent,
       base |-> "https://env.example", secret |-> Absent],
      \* a full log, one user only, and no base URL anywhere
      [result |-> Some(OldResult), logs |-> Some(OldLogs(MaxLogs)),
       users |-> [u \in Usernames |-> IF u = "ua" THEN Some(UserRecord(u, TRUE, TRUE)) ELSE Absent],
       auto |-> Some(AutoSyncRecord), substore |-> Some([baseUrl |-> ""]),
       base |-> "", secret |-> Some("s3cret")] }

BatchConfig ==
    [result |-> Absent, logs |-> Absent,
     users |-> [u \in Usernames |-> Some(UserRecord(u, u = "ua", FALSE))],
     auto |-> Some(AutoSyncRecord), substore |-> Absent,
     base |-> "https://env.example", secret |-> Some("s3cret")]

\* the outcomes a log records, oldest first
RECURSIVE Reverse(_)
Reverse(q) == IF q = <<>> THEN <<>> ELSE Append(Reverse(Tail(q)), Head(q))

Unstamped(e) == [success |-> e.success, nodeCount |-> e.nodeCount, error |-> e.error]

OutcomesOf(logs) == [i \in 1..Len(logs) |-> Unstamped(logs[i])]

InitFrom(k) ==
    /\ env = [SUBSTORE_SHARE_BASE |-> k.base, SYNC_SECRET |-> k.secret]
    /\ syncResult = k.result
    /\ syncLogs = k.logs
    /\ userStore = k.users
    /\ autoSync = k.auto
    /\ substore = k.substore
    /\ now = 0
    /\ calls = [c \in CallIds |-> IdleCall]
    /\ runs = 0
    /\ history = Reverse(OutcomesOf(OrEmpty(k.logs)))
    /\ overlapped = FALSE

Init == mode = "single" /\ \E k \in StoreConfigs \cup {BatchConfig} : InitFrom(k)

InitFault == mode = "fault" /\ \E k \in StoreConfigs : InitFrom(k)

InitGlobal == mode = "global" /\ \E k \in StoreConfigs : InitFrom(k)

InitUsers == mode = "users" /\ \E k \in StoreConfigs : InitFrom(k)

InitAdmin == mode = "admin" /\ \E k \in StoreConfigs : InitFrom(k)

InitParse == mode = "parse" /\ \E k \in StoreConfigs : InitFrom(k)

InitBodies == mode = "bodies" /\ \E k \in StoreConfigs : InitFrom(k)

Next ==
    \/ \E c \in CallIds : GStart(c)
    \/ \E c \in CallIds, token \in Tokens : ApiSync(c, token)
    \/ \E c \in CallIds : \E t \in GTexts(c) : GFetchOk(c, t)
    \/ \E c \in CallIds, st \in Statuses, f1, f2 \in FailChoices : GFetchStatus(c, st, f1, f2)
    \/ \E c \in CallIds, why \in Rejections, f2 \in FailChoices : GFetchReject(c, why, f2)
    \/ \E c \in CallIds, f1, f2 \in FailChoices : GProcess(c, f1, f2)
    \/ \E c \in CallIds, f1, f2 \in FailChoices : GLogGet(c, f1, f2)
    \/ \E c \in CallIds, f1, f2 \in FailChoices : GLogPut(c, f1, f2)
    \/ \E c \in CallIds : GReturn(c)
    \/ \E c \in CallIds, f1 \in FailChoices : SStart(c, f1)
    \/ \E c \in CallIds, f1 \in FailChoices : SLogs(c, f1)
    \/ \E c \in CallIds, u \in Usernames, f1 \in FailChoices : URoute(c, u, f1)
    \/ \E c \in CallIds, f1 \in FailChoices : UCfg(c, f1)
    \/ \E c \in CallIds, u \in Usernames, b \in BaseUrls : UDirect(c, u, b)
    \/ \E c \in CallIds : \E t \in UserTexts(c) : UFetchOk(c, t)
    \/ \E c \in CallIds, st \in Statuses : UFetchStatus(c, st)
    \/ \E c \in CallIds, why \in Rejections : UFetchReject(c, why)
    \/ \E c \in CallIds, f1 \in FailChoices : UProcess(c, f1)
    \/ \E c \in CallIds : UReturn(c)
    \/ \E c \in CallIds, f1 \in FailChoices : BStart(c, f1)
    \/ \E c \in CallIds, f1 \in FailChoices : BList(c, f1)
    \/ \E c \in CallIds, f1 \in FailChoices : BNext(c, f1)
    \/ \E c \in CallIds, f1 \in FailChoices : BCfg(c, f1)
    \/ \E c \in CallIds : BReturn(c)
    \/ \E c \in CallIds, u \in Usernames, f1 \in FailChoices : DStart(c, u, f1)
    \/ \E c \in CallIds, t \in SampleTexts : DFetchOk(c, t)
    \/ \E c \in CallIds, st \in Statuses : DFetchStatus(c, st)
    \/ \E c \in CallIds, why \in Rejections : DFetchReject(c, why)
    \/ \E c \in CallIds, u \in Usernames, pw \in {PwOld, PwWrong}, f1 \in FailChoices :
          LStart(c, u, pw, f1)
    \/ \E c \in CallIds, f1 \in FailChoices : LVerify(c, f1)
    \/ \E c \in CallIds, u \in Usernames, cur \in {PwOld, PwWrong}, new \in {PwNew, PwShort},
          f1 \in FailChoices : PStart(c, u, cur, new, f1)
    \/ \E c \in CallIds, f1 \in FailChoices : PWrite(c, f1)
    \/ \E c \in CallIds, u \in Usernames, body \in Bodies, f1 \in FailChoices :
          AStart(c, u, body, f1)
    \/ \E c \in CallIds, f1 \in FailChoices : AWrite(c, f1)
    \/ \E c \in CallIds : WReturn(c)
    \/ \E c \in CallIds : Respond(c)

\* the global syncs and the status reads alone
NextGlobal ==
    \/ \E c \in CallIds : GStart(c)
    \/ \E c \in CallIds : \E t \in GTexts(c) : GFetchOk(c, t)
    \/ \E c \in CallIds, st \in Statuses, f1, f2 \in FailChoices : GFetchStatus(c, st, f1, f2)
    \/ \E c \in CallIds, why \in Rejections, f2 \in FailChoices : GFetchReject(c, why, f2)
    \/ \E c \in CallIds, f1, f2 \in FailChoices : GProcess(c, f1, f2)
    \/ \E c \in CallIds, f1, f2 \in FailChoices : GLogGet(c, f1, f2)
    \/ \E c \in CallIds, f1, f2 \in FailChoices : GLogPut(c, f1, f2)
    \/ \E c \in CallIds : GReturn(c)
    \/ \E c \in CallIds, f1 \in FailChoices : SStart(c, f1)
    \/ \E c \in CallIds, f1 \in FailChoices : SLogs(c, f1)
    \/ \E c \in CallIds : Respond(c)

\* the operations that read and write user records
NextUsers ==
    \/ \E c \in CallIds, u \in Usernames, f1 \in FailChoices : URoute(c, u, f1)
    \/ \E c \in CallIds, f1 \in FailChoices : UCfg(c, f1)
    \/ \E c \in CallIds : \E t \in UserTexts(c) : UFetchOk(c, t)
    \/ \E c \in CallIds, st \in Statuses : UFetchStatus(c, st)
    \/ \E c \in CallIds, why \in Rejections : UFetchReject(c, why)
    \/ \E c \in CallIds, f1 \in FailChoices : UProcess(c, f1)
    \/ \E c \in CallIds : UReturn(c)
    \/ \E c \in CallIds, f1 \in FailChoices : BStart(c, f1)
    \/ \E c \in CallIds, f1 \in FailChoices : BList(c, f1)
    \/ \E c \in CallIds, f1 \in FailChoices : BNext(c, f1)
    \/ \E c \in CallIds, f1 \in FailChoices : BCfg(c, f1)
    \/ \E c \in CallIds : BReturn(c)
    \/ \E c \in CallIds, u \in Usernames, pw \in {PwOld, PwWrong}, f1 \in FailChoices :
          LStart(c, u, pw, f1)
    \/ \E c \in CallIds, f1 \in FailChoices : LVerify(c, f1)
    \/ \E c \in CallIds, u \in Usernames, cur \in {PwOld, PwWrong}, new \in {PwNew, PwShort},
          f1 \in FailChoices : PStart(c, u, cur, new, f1)
    \/ \E c \in CallIds, f1 \in FailChoices : PWrite(c, f1)
    \/ \E c \in CallIds, u \in Usernames, body \in Bodies, f1 \in FailChoices :
          AStart(c, u, body, f1)
    \/ \E c \in CallIds, f1 \in FailChoices : AWrite(c, f1)
    \/ \E c \in CallIds : WReturn(c)

\* a single-user sync beside the administrator's update or deletion of a
\* user record
NextAdmin ==
    \/ \E c \in CallIds, u \in Usernames, f1 \in FailChoices : URoute(c, u, f1)
    \/ \E c \in CallIds, f1 \in FailChoices : UCfg(c, f1)
    \/ \E c \in CallIds : \E t \in UserTexts(c) : UFetchOk(c, t)
    \/ \E c \in CallIds, st \in Statuses : UFetchStatus(c, st)
    \/ \E c \in CallIds, why \in Rejections : UFetchReject(c, why)
    \/ \E c \in CallIds, f1 \in FailChoices : UProcess(c, f1)
    \/ \E c \in CallIds : UReturn(c)
    \/ \E c \in CallIds, u \in Usernames, body \in Bodies, f1 \in FailChoices :
          AStart(c, u, body, f1)
    \/ \E c \in CallIds, f1 \in FailChoices : AWrite(c, f1)
    \/ \E c \in CallIds, u \in Usernames, f1 \in FailChoices : XDelete(c, u, f1)
    \/ \E c \in CallIds : WReturn(c)

\* a global sync or a single-user sync whose fetch is answered with a body
NextBodies ==
    \/ \E c \in CallIds : GStart(c)
    \/ \E c \in CallIds : \E t \in GTexts(c) : GFetchOk(c, t)
    \/ \E c \in CallIds, f1, f2 \in FailChoices : GProcess(c, f1, f2)
    \/ \E c \in CallIds, f1, f2 \in FailChoices : GLogGet(c, f1, f2)
    \/ \E c \in CallIds, f1, f2 \in FailChoices : GLogPut(c, f1, f2)
    \/ \E c \in CallIds : GReturn(c)
    \/ \E c \in CallIds, u \in Usernames, f1 \in FailChoices : URoute(c, u, f1)
    \/ \E c \in CallIds, f1 \in FailChoices : UCfg(c, f1)
    \/ \E c \in CallIds : \E t \in UserTexts(c) : UFetchOk(c, t)
    \/ \E c \in CallIds, f1 \in FailChoices : UProcess(c, f1)
    \/ \E c \in CallIds : UReturn(c)

\* the parser called with a label
NextParse ==
    \/ \E c \in CallIds, expire \in ExpireParts, unix \in UnixParts, traffic \in TrafficParts :
          ParseLabel(c, expire, unix, traffic)
    \/ \E c \in CallIds : Respond(c)

\* one invocation of any operation, on the in-memory store (whose operations
\* never reject), for every body of at most MaxLines lines
Spec == Init /\ [][Next]_vars

\* one invocation of any operation on a store whose operations may reject
SpecFault == InitFault /\ [][Next]_vars

\* up to MaxRuns global syncs and status reads, two at a time, interleaved
SpecGlobal == InitGlobal /\ [][NextGlobal]_vars

\* two operations on the user records (syncs, logins, password changes,
\* updates), the second one started at any step of the first
SpecUsers == InitUsers /\ [][NextUsers]_vars

\* two operations out of the single-user sync, the administrator's update
\* and the deletion of a user, the second one started at any step of the
\* first
SpecAdmin == InitAdmin /\ [][NextAdmin]_vars

\* one sync, global or of one user, for every body of BodyTexts
SpecBodies == InitBodies /\ [][NextBodies]_vars

\* one call of parseNodeName, for every label made of an expire part, an
\* exp: part and a traffic part
SpecParse == InitParse /\ [][NextParse]_vars

(***************************************************************************)
(* Properties of the sync operations.                                      *)
(***************************************************************************)
Contains(q, x) == \E i \in 1..Len(q) : q[i] = x

Min(a, b) == IF a < b THEN a ELSE b

FirstN(q, n) == SubSeq(q, 1, Min(Len(q), n))

LastN(q, n) == SubSeq(q, Len(q) - n + 1, Len(q))

\* slot c holds a global sync that ran alone and has written its log entry
GlobalLogged(c) ==
    calls[c].kind = "global" /\ calls[c].pc = "logged" /\ calls[c].alone

\* C1: a global sync that the upstream answered with a non-2xx status returns
\* success=false with an error that contains the status, has put exactly one
\* failure entry at the head of sync:logs (the entries before it follow, the
\* eleventh dropped), and has left sync:result as it was before the call.
C1_NonOkStatus ==
    \A c \in CallIds :
        GlobalLogged(c) /\ calls[c].status # "" =>
            LET ret  == calls[c].ret[1]
                pre  == calls[c].pre[1]
                logs == OrEmpty(syncLogs)
            IN  /\ ret.success = FALSE
                /\ Contains(ret.error, calls[c].status)
                /\ logs # <<>>
                /\ Unstamped(logs[1]) = FailEntry(ret.error)
                /\ Tail(logs) = FirstN(OrEmpty(pre.logs), MaxLogs - 1)
                /\ syncResult = pre.result

\* a 503 answered to a sync on a store that holds a result and a full log
C1_Witness ==
    \E c \in CallIds :
        /\ GlobalLogged(c)
        /\ calls[c].status = "503"
        /\ calls[c].pre[1].result # Absent
        /\ Len(OrEmpty(calls[c].pre[1].logs)) = MaxLogs

\* C2: no invocation of syncSubscription or syncAllUsers ends by raising,
\* whichever fetch or storage operation fails (syncUserSubscription is called
\* by both kinds "user" and "bulk"; in a call of kind "user" only the route's
\* own reads raise, before the function is entered).
C2_NeverRaises ==
    \A c \in CallIds : calls[c].pc = "threw" => calls[c].kind \notin {"global", "bulk"}

\* slot c holds a syncAllUsers that went through the users and returned
BulkDone(c) ==
    calls[c].kind = "bulk" /\ calls[c].pc = "done" /\ calls[c].baseUrl # ""

\* C3: in a syncAllUsers run every bound user is synced, once and in order,
\* whatever the outcome of the others; the failed ones are counted in failed
\* and the others in success; a user whose sync succeeded has its
\* lastSyncResult overwritten, and the record of a failed one is as it was.
C3_BulkIsolation ==
    \A c \in CallIds :
        BulkDone(c) =>
            LET call  == calls[c]
                pre   == call.pre[1].users
                seen  == call.synced
                bound == SelectSeq(UserOrder, LAMBDA u : Bound(pre[u]))
            IN  /\ [i \in 1..Len(seen) |-> seen[i].user] = bound
                /\ call.ret[1].failed = Cardinality({i \in 1..Len(seen) : ~seen[i].ok})
                /\ call.ret[1].success = Cardinality({i \in 1..Len(seen) : seen[i].ok})
                /\ \A i \in 1..Len(seen) :
                      LET u == seen[i].user
                      IN  IF seen[i].ok
                          THEN userStore[u] = Some([pre[u][1] EXCEPT !.lastSyncResult =
                                  Some(UserSyncResultOf(seen[i].text, now, BaseDay + now))])
                          ELSE userStore[u] = pre[u]

\* the first user's fetch failed and the second user's sync succeeded
C3_Witness ==
    \E c \in CallIds :
        /\ BulkDone(c)
        /\ Len(calls[c].synced) = 2
        /\ ~calls[c].synced[1].ok
        /\ calls[c].synced[2].ok

LogLength == Len(OrEmpty(syncLogs))

\* a step of getSyncStatus
StatusStep == \E c \in CallIds, f \in FailChoices : SStart(c, f) \/ SLogs(c, f)

\* C4: whatever the interleaving of the global syncs, sync:logs never holds
\* more than 10 entries, and a step of a status read leaves its length alone.
C4_LogsBounded ==
    /\ [](LogLength <= MaxLogs)
    /\ [][StatusStep => LogLength' = LogLength]_vars

\* a status read has returned while a sync that started on a full log, and
\* overlapped another call, has written its entry
C4_Witness ==
    \E c, d \in CallIds :
        /\ calls[c].kind = "status" /\ calls[c].pc = "done"
        /\ calls[d].kind = "global" /\ calls[d].pc = "logged" /\ ~calls[d].alone
        /\ Len(OrEmpty(calls[d].pre[1].logs)) = MaxLogs
        /\ LogLength = MaxLogs

NoGlobalRunning == \A c \in CallIds : ~(calls[c].kind = "global" /\ Active(c))

\* C5: when the global syncs ran one after another, sync:logs holds the
\* outcomes of the last min(n, 10) of them, the newest first.
C5_LogsAreLastOutcomes ==
    ~overlapped /\ NoGlobalRunning =>
        OutcomesOf(OrEmpty(syncLogs)) = Reverse(LastN(history, Min(Len(history), MaxLogs)))

\* an eleventh outcome has been logged
C5_Witness ==
    ~overlapped /\ NoGlobalRunning /\ Len(history) = MaxLogs + 1 /\ runs > 0

\* C6: a successful global sync has stored under sync:result the record of
\* its own response text and nothing else, and put a success entry at the head
\* of sync:logs; the record's nodeCount is the length of its rawLines, the
\* nodeCount of the head entry and the nodeCount returned.
C6_ResultReplaced ==
    \A c \in CallIds :
        GlobalLogged(c) /\ calls[c].ret[1].success =>
            LET ret  == calls[c].ret[1]
                pre  == calls[c].pre[1]
                logs == OrEmpty(syncLogs)
            IN  /\ syncResult = Some(SyncResultOf(calls[c].text, now))
                /\ syncResult[1].nodeCount = Len(syncResult[1].rawLines)
                /\ logs # <<>>
                /\ Unstamped(logs[1]) = OkEntry(syncResult[1].nodeCount)
                /\ Tail(logs) = FirstN(OrEmpty(pre.logs), MaxLogs - 1)
                /\ ret.nodeCount = syncResult[1].nodeCount

\* a body without a traffic figure has replaced a record that had a total
C6_Witness ==
    \E c \in CallIds :
        /\ GlobalLogged(c) /\ calls[c].ret[1].success
        /\ calls[c].pre[1].result # Absent
        /\ calls[c].pre[1].result[1].totalRemainGB # Absent
        /\ syncResult[1].totalRemainGB = Absent
        /\ syncResult[1].nodeCount = MaxLines

\* the remaining-traffic figure of a line, in thousandths of a GB: the line
\* is accepted and its label holds the marker, a number and a unit
FigureOf(line) ==
    LET nodeName == extractNodeNameFromUrl(line)
        figure   == parseNodeName(nodeName).remainTrafficGB
    IN  IF isValidProxyUrl(line) /\ nodeName # <<>> /\ figure # Absent /\ ~figure[1].nan
        THEN Some(figure[1].milli)
        ELSE Absent

RECURSIVE FiguresOf(_)
FiguresOf(text) ==
    IF text = <<>> THEN <<>>
    ELSE FigureOf(Head(text)) \o FiguresOf(Tail(text))

RECURSIVE SumOf(_)
SumOf(q) == IF q = <<>> THEN 0 ELSE Head(q) + SumOf(Tail(q))

\* slot c holds a sync that has just stored the record calls[c].res
HasStored(c) ==
    \/ calls[c].kind = "global" /\ calls[c].pc = "stored"
    \/ calls[c].kind \in {"user", "bulk"} /\ calls[c].pc = "ustored"

\* C7: the totalRemainGB a sync persists is null when no accepted line of the
\* body carries a traffic figure, and it is 0 only when some line carries one
\* and the figures sum to 0.
C7_NullWithoutFigure ==
    \A c \in CallIds :
        HasStored(c) =>
            LET total   == calls[c].res[1].totalRemainGB
                figures == FiguresOf(calls[c].text)
            IN  /\ figures = <<>> => total = Absent
                /\ total = Some(Num(0)) => figures # <<>> /\ SumOf(figures) = 0

\* C8: in the global sync and in the user sync, the totalRemainGB persisted
\* for a body with at least one traffic figure is the sum of the figures
\* rounded to 2 decimals.
C8_TotalIsRoundedSum ==
    \A c \in CallIds :
        HasStored(c) =>
            LET total   == calls[c].res[1].totalRemainGB
                figures == FiguresOf(calls[c].text)
            IN  figures # <<>> => total = Some(Round2(Num(SumOf(figures))))

\* C9: the nodeCount the user sync stores for a body is the nodeCount the
\* global sync stores for it: the number of its lines that start, trimmed and
\* in any case, with one of the nine schemes.
C9_SameLinesAccepted ==
    \A c \in CallIds :
        calls[c].kind \in {"user", "bulk"} /\ calls[c].pc = "ustored" =>
            /\ calls[c].res[1].nodeCount = SyncResultOf(calls[c].text, now).nodeCount
            /\ calls[c].res[1].nodeCount
                  = Len(SelectSeq(NonBlankLines(calls[c].text), isValidProxyUrl))

Categories == {"vless", "trojan", "vmess", "shadowsocks", "other"}

\* the category a line is to be counted under
CategoryOf(line) ==
    LET trimmed == ToLowerCase(Trim(line))
    IN  IF StartsWith(trimmed, P_vless) THEN "vless"
        ELSE IF StartsWith(trimmed, P_trojan) THEN "trojan"
        ELSE IF StartsWith(trimmed, P_vmess) THEN "vmess"
        ELSE IF StartsWith(trimmed, P_ss) THEN "shadowsocks"
        ELSE "other"

\* C10: the record a global sync stores carries the five counters vless,
\* trojan, shadowsocks, vmess and other, each the number of accepted lines of
\* its category.
C10_FiveCategories ==
    \A c \in CallIds :
        calls[c].kind = "global" /\ calls[c].pc = "stored" =>
            LET protocols == calls[c].res[1].protocols
                accepted  == SelectSeq(NonBlankLines(calls[c].text), isValidProxyUrl)
            IN  /\ DOMAIN protocols = Categories
                /\ \A k \in Categories :
                      protocols[k] = Cardinality({i \in 1..Len(accepted) :
                                                    CategoryOf(accepted[i]) = k})


(***************************************************************************)
(* Properties of the bulk sync.                                            *)
(***************************************************************************)
\* the auto-sync record a returned bulk run found stored, stamped with the time
StampedAuto(c) == Some([calls[c].res[1] EXCEPT !.lastScheduledSync = Some(now)])

\* C11 as stated: every syncAllUsers run that resolved a base URL has, when
\* it returns, written a fresh lastScheduledSync into config:auto_sync,
\* whatever the store held at the start.
C11_AlwaysStamped ==
    \A c \in CallIds :
        BulkDone(c) => autoSync # Absent /\ autoSync[1].lastScheduledSync = Some(now)

\* C11: a syncAllUsers run that resolved a base URL and found a record under
\* config:auto_sync after its loop has, when it returns, stored that record
\* with lastScheduledSync set to the time of the run, whatever the outcomes
\* of the users' syncs; a run that found no record there has written none.
C11_StampedWhenStored ==
    \A c \in CallIds :
        BulkDone(c) =>
            IF calls[c].res = Absent
            THEN autoSync = Absent /\ calls[c].pre[1].auto = Absent
            ELSE autoSync = StampedAuto(c) /\ calls[c].pre[1].auto[1].lastScheduledSync # Some(now)

\* a run whose two users both failed has stamped the record
C11_Witness ==
    \E c \in CallIds :
        /\ BulkDone(c)
        /\ calls[c].counts.failed = 2
        /\ autoSync = StampedAuto(c)

\* neither config:substore nor the environment gives a base URL
NoBaseUrl(sub) ==
    /\ sub = Absent \/ sub[1].baseUrl = ""
    /\ env.SUBSTORE_SHARE_BASE = ""

\* C12: a syncAllUsers run started when neither config:substore nor the
\* environment gives a base URL issues no fetch and changes no key, and
\* returns total = 0, success = 0, failed = 0 and synced = 0.
C12_NoBaseUrlNoEffect ==
    \A c \in CallIds :
        calls[c].kind = "bulk" /\ calls[c].pc # "threw" /\ NoBaseUrl(calls[c].pre[1].sub) =>
            /\ calls[c].fetches = 0
            /\ Snapshot = calls[c].pre[1]
            /\ calls[c].pc \in {"blist", "done"}
            /\ calls[c].pc = "done" =>
                  calls[c].ret = Some([total |-> 0, success |-> 0, failed |-> 0, synced |-> 0])

\* the run has returned on a store that holds a bound user
C12_Witness ==
    \E c \in CallIds :
        /\ calls[c].kind = "bulk" /\ calls[c].pc = "done"
        /\ NoBaseUrl(calls[c].pre[1].sub)
        /\ \E u \in Usernames : Bound(userStore[u])

\* the users stored, and the bound ones among them, in a store's user keys
StoredUsers(users) == {u \in Usernames : users[u] # Absent}
BoundUsers(users)  == {u \in Usernames : Bound(users[u])}

\* C13: a returned syncAllUsers run with a base URL reports as total the
\* number of keys under "user:", as synced the number of users that had a
\* binding when read, synced <= total and success + failed = synced; each
\* bound user is counted once, in success or in failed.
C13_Counters ==
    \A c \in CallIds :
        BulkDone(c) =>
            LET ret    == calls[c].ret[1]
                users  == calls[c].pre[1].users
                synced == calls[c].synced
            IN  /\ ret.total = Cardinality(StoredUsers(users))
                /\ ret.synced = Cardinality(BoundUsers(users))
                /\ ret.success + ret.failed = ret.synced
                /\ ret.synced <= ret.total
                /\ \A u \in BoundUsers(users) :
                      Cardinality({i \in 1..Len(synced) : synced[i].user = u}) = 1
                /\ ret.success = Cardinality({i \in 1..Len(synced) : synced[i].ok})
                /\ ret.failed = Cardinality({i \in 1..Len(synced) : ~synced[i].ok})
                /\ Len(synced) = ret.synced

\* a run over a bound and an unbound user, the bound one failing
C13_Witness ==
    \E c \in CallIds :
        /\ BulkDone(c)
        /\ calls[c].ret[1].total = 2
        /\ calls[c].ret[1].synced = 1
        /\ calls[c].ret[1].failed = 1

(***************************************************************************)
(* Properties of the fetches.                                              *)
(***************************************************************************)
\* C18: in the global sync and in a user's sync the timeout timer is pending
\* only while the fetch is in flight: it has been cleared on every way the
\* fetch can finish (a response of any status, a rejection, the abort), so
\* no call that has returned or raised has its timer still pending.
C18_TimerCleared ==
    \A c \in CallIds :
        calls[c].kind \in {"global", "user", "bulk"} =>
            /\ calls[c].timer => calls[c].pc = "fetch"
            /\ calls[c].pc \in {"done", "threw"} => ~calls[c].timer

\* a sync has returned after the abort at the timeout
C18_Witness ==
    \E c \in CallIds :
        /\ calls[c].pc = "done" /\ calls[c].fetches = 1 /\ ~calls[c].timer
        /\ calls[c].kind \in {"global", "user"}
        /\ calls[c].ret[1].success = FALSE
        /\ calls[c].ret[1].error = FetchMessage("abort")

\* the users' syncs a call has started and not yet seen return
Running(c) == calls[c].fetches - Len(calls[c].synced)

\* the bound users among the first n keys of a bulk run
BoundBefore(c, n) ==
    Cardinality({i \in 1..n : i <= Len(calls[c].keys) /\ Bound(userStore[calls[c].keys[i]])})

\* C19: within one syncAllUsers run at most one user's sync (hence one
\* fetch) is in progress at any time; the sync of a user starts only when
\* the syncs of all bound users before it have returned; and
\* config:auto_sync is read and written only when the sync of every bound
\* user has returned.
C19_OneAtATime ==
    \A c \in CallIds :
        calls[c].kind = "bulk" =>
            /\ Running(c) \in {0, 1}
            /\ Running(c) = 1 <=> calls[c].pc \in {"fetch", "text", "ustored"}
            /\ calls[c].timer => Running(c) = 1
            /\ Running(c) = 1 => Len(calls[c].synced) = BoundBefore(c, calls[c].idx - 1)
            /\ calls[c].pc \in {"bcfg", "bset"} \/ autoSync # calls[c].pre[1].auto =>
                  /\ Running(c) = 0
                  /\ Len(calls[c].synced) = BoundBefore(c, Len(calls[c].keys))

\* the second user's fetch is in flight, the first user's sync has returned
\* and config:auto_sync is as it was
C19_Witness ==
    \E c \in CallIds :
        /\ calls[c].kind = "bulk" /\ calls[c].pc = "fetch"
        /\ calls[c].idx = 2 /\ Len(calls[c].synced) = 1
        /\ autoSync = calls[c].pre[1].auto

(***************************************************************************)
(* Properties of the single-user sync, the base URL and the sync route.    *)
(***************************************************************************)
\* C14: syncUserSubscription called with a user record that has no binding
\* returns success = false with an error message, issues no fetch and
\* writes nothing.
C14_UnboundRefused ==
    \A c \in CallIds :
        /\ calls[c].kind = "user"
        /\ calls[c].user # Absent
        /\ calls[c].user[1].subscriptionConfig = Absent
        => /\ calls[c].pc = "done"
           /\ calls[c].ret = Some([success |-> FALSE, error |-> UnboundMessage])
           /\ calls[c].fetches = 0
           /\ Snapshot = calls[c].pre[1]

\* the call has returned for a stored user without a binding, while a base
\* URL is configured
C14_Witness ==
    \E c \in CallIds :
        /\ calls[c].kind = "user" /\ calls[c].pc = "done"
        /\ calls[c].user # Absent
        /\ ~Bound(calls[c].user)
        /\ env.SUBSTORE_SHARE_BASE # ""

\* the base URL the configuration gives: the stored one when it is not
\* empty, the one of the environment otherwise
ConfiguredBase(sub) ==
    IF sub # Absent /\ sub[1].baseUrl # "" THEN sub[1].baseUrl ELSE env.SUBSTORE_SHARE_BASE

\* C15: every fetch issued for a bound user by the single-user sync route,
\* by syncAllUsers or by the user's subscription download goes to the base
\* URL stored under config:substore when that one is not empty, and to
\* env.SUBSTORE_SHARE_BASE only when no base URL is stored.
C15_StoredBaseFirst ==
    \A c \in CallIds :
        /\ calls[c].kind \in {"user", "bulk", "download"}
        /\ calls[c].kind = "bulk" \/ calls[c].req # Absent
        /\ calls[c].pc = "fetch"
        => calls[c].baseUrl = ConfiguredBase(calls[c].pre[1].sub)

\* C20: a request to GET /sync whose token is missing or differs from the
\* configured SYNC_SECRET is answered 403 and leaves sync:result and
\* sync:logs as they were, whether SYNC_SECRET is set or not.
C20_TokenRequired ==
    \A c \in CallIds :
        /\ calls[c].kind \in {"api", "global"}
        /\ calls[c].req # Absent
        /\ calls[c].req[1].token = Absent \/ calls[c].req[1].token # env.SYNC_SECRET
        => /\ calls[c].pc = "done"
           /\ calls[c].ret = Some([status |-> 403])
           /\ syncResult = calls[c].pre[1].result
           /\ syncLogs = calls[c].pre[1].logs

(***************************************************************************)
(* Properties of the operations on the user records, interleaved.          *)
(***************************************************************************)
\* the lastSyncResult stored for u (absent when u is not stored)
LastSync(u) == IF userStore[u] = Absent THEN Absent ELSE userStore[u][1].lastSyncResult

\* the step is the write of a sync of user u
SyncWrites(c, u) ==
    /\ UserCall(c)
    /\ calls[c].pc = "text" /\ calls'[c].pc = "ustored"
    /\ calls[c].user[1].username = u

\* C16: with syncs, logins, password changes and updates interleaved, the
\* stored lastSyncResult of a user changes only in the write step of a sync
\* of that user; no write of another operation creates, reverts or removes
\* it.
C16_OnlySyncWrites ==
    [][\A u \in Usernames :
          LastSync(u)' # LastSync(u) => \E c \in CallIds : SyncWrites(c, u)]_vars

\* the two slots hold returned single-user syncs of two distinct users
TwoUserSyncs ==
    /\ \A c \in CallIds :
          calls[c].kind = "user" /\ calls[c].pc = "done" /\ calls[c].user # Absent
    /\ calls[1].user[1].username # calls[2].user[1].username

\* the record a sync leaves for its user on a store that held `before`: the
\* record with lastSyncResult computed from the sync's own response at the
\* time the sync read from the clock, or `before` when the sync failed
LeftBy(c, before) ==
    IF calls[c].res = Absent THEN before
    ELSE LET ts == calls[c].res[1].lastSync
         IN  Some([before[1] EXCEPT !.lastSyncResult =
                      Some(UserSyncResultOf(calls[c].text, ts, BaseDay + ts))])

\* C17: two single-user syncs of two distinct users, interleaved in any
\* way, leave the store that running one after the other leaves: each
\* user's record is the record the store started with, changed by that
\* user's sync alone, and no other key has changed.
C17_DistinctUsersCommute ==
    TwoUserSyncs =>
        LET before == calls[1].pre[1]
        IN  /\ \A c \in CallIds :
                  userStore[calls[c].user[1].username] =
                      LeftBy(c, before.users[calls[c].user[1].username])
            /\ syncResult = before.result
            /\ syncLogs = before.logs
            /\ autoSync = before.auto
            /\ substore = before.sub

\* both syncs succeeded, and the second one started while the first was
\* in progress
C17_Witness ==
    /\ TwoUserSyncs
    /\ ~calls[1].alone
    /\ \A c \in CallIds : calls[c].res # Absent
    /\ calls[2].pre[1].users = calls[1].pre[1].users

\* the lines of a text that are not blank, and those of them that fail the
\* protocol validation
NonBlankAt(text) == {i \in 1..Len(text) : Trim(text[i]) # <<>>}

InvalidAt(text) == {i \in NonBlankAt(text) : ~isValidProxyUrl(text[i])}

\* slot c holds a global sync that has stored the result of its response
\* text and written its log entry
GlobalStored(c) ==
    calls[c].kind = "global" /\ calls[c].pc \in {"logged", "done"} /\ calls[c].res # Absent

\* C22: a global sync that parsed a response text returns success whatever
\* lines the text holds; every non-blank line is accepted or counted
\* invalid, so nodeCount plus the invalid lines is the number of non-blank
\* lines, and the invalidLines returned is absent exactly when no line is
\* invalid.
C22_LinesAccountedFor ==
    \A c \in CallIds :
        GlobalStored(c) =>
            LET ret     == calls[c].ret[1]
                invalid == Cardinality(InvalidAt(calls[c].text))
            IN  /\ ret.success
                /\ ret.nodeCount + invalid = Cardinality(NonBlankAt(calls[c].text))
                /\ ret.nodeCount = Len(calls[c].res[1].rawLines)
                /\ ret.invalidLines = IF invalid = 0 THEN Absent ELSE Some(invalid)

\* a sync has returned for a text with a blank line, or none, beside an
\* accepted line and a line that fails the validation
C22_Witness ==
    \E c \in CallIds :
        /\ GlobalStored(c) /\ calls[c].pc = "done"
        /\ calls[c].ret[1].nodeCount = 1
        /\ calls[c].ret[1].invalidLines = Some(1)


\* C28: every global sync that has returned has added one entry to
\* sync:logs: once no global sync is in progress, and while no more than
\* ten outcomes have been recorded, the log is as long as the number of
\* entries it started with plus the number of syncs that returned.
C28_OneEntryEach ==
    NoGlobalRunning /\ Len(history) <= MaxLogs => LogLength = Len(history)

\* C29: sync:result changes only inside a global sync that returns
\* success=true: when a global sync has returned success=false, for any
\* cause, a storage failure while its success entry was being logged
\* included, sync:result is what it was before the call, so the head of
\* sync:logs reports no failure for a sync whose result was stored.
C29_ResultOnlyOnSuccess ==
    \A c \in CallIds :
        /\ calls[c].kind = "global" /\ calls[c].pc \in {"logged", "done"}
        /\ ~calls[c].ret[1].success
        => syncResult = calls[c].pre[1].result

\* the status getSyncStatus builds from a sync:result and a sync:logs read
StatusOf(result, logs) ==
    [lastSync    |-> IF result = Absent THEN Absent ELSE Some(result[1].lastSync),
     nodeCount   |-> IF result = Absent THEN 0 ELSE result[1].nodeCount,
     success     |-> IF logs = <<>> THEN TRUE ELSE Head(logs).success,
     latestError |-> IF logs = <<>> THEN Absent ELSE Head(logs).error]

\* slot c holds a status read that returned, slot d a global sync that
\* failed and returned before the status read started: the status read
\* started on the log the sync left
StatusAfterFailure(c, d) ==
    /\ calls[c].kind = "status" /\ calls[c].pc = "done" /\ calls[c].alone
    /\ calls[d].kind = "global" /\ calls[d].pc = "done" /\ calls[d].alone
    /\ ~calls[d].ret[1].success
    /\ \E ts \in 0..now :
          calls[c].pre[1].logs =
              Some(LogsAfter(OrEmpty(calls[d].pre[1].logs), calls[d].entry[1], ts))

\* C30: getSyncStatus reads sync:result and then sync:logs; the status it
\* returns takes success and latestError from the head of the log (success
\* true when the log is empty) and lastSync and nodeCount from the result
\* (null and 0 when there is none).  A status read after a failed sync
\* returns success=false with that failure's error, and the lastSync and
\* nodeCount the store held before the failed sync.  No step of a status
\* read changes the store.
C30_StatusReport ==
    /\ [][\A c \in CallIds :
             /\ calls[c].pc = "idle" /\ calls'[c].pc = "statuslogs"
                => calls'[c].res = syncResult
             /\ calls[c].pc = "statuslogs" /\ calls'[c].pc = "done"
                => calls'[c].ret = Some(StatusOf(calls[c].res, OrEmpty(syncLogs)))]_vars
    /\ [][StatusStep => UNCHANGED store]_vars
    /\ [](\A c, d \in CallIds :
             StatusAfterFailure(c, d) =>
                 LET before == calls[d].pre[1].result
                     status == calls[c].ret[1]
                 IN  /\ ~status.success
                     /\ status.latestError = Some(calls[d].ret[1].error)
                     /\ status.lastSync = IF before = Absent THEN Absent
                                          ELSE Some(before[1].lastSync)
                     /\ status.nodeCount = IF before = Absent THEN 0
                                           ELSE before[1].nodeCount)

\* a status read has returned after a sync that failed on a store holding
\* the result of an earlier successful sync
C30_Witness ==
    \E c, d \in CallIds :
        /\ StatusAfterFailure(c, d)
        /\ calls[d].pre[1].result # Absent
        /\ calls[c].ret[1].nodeCount > 0

\* C27: the write of a single-user sync changes lastSyncResult and nothing
\* else of the user's record: whatever update or deletion of the same user
\* happened while the sync fetched, the record after the write is the record
\* the store held just before it with the new lastSyncResult, and a user the
\* store no longer holds is not stored again.
C27_OtherFieldsKept ==
    [][\A c \in CallIds, u \in Usernames :
          SyncWrites(c, u) =>
              IF userStore[u] = Absent
              THEN userStore'[u] = Absent
              ELSE userStore'[u] =
                       Some([userStore[u][1] EXCEPT !.lastSyncResult = calls'[c].res])]_vars

(***************************************************************************)
(* Properties of the node-name parser.                                     *)
(***************************************************************************)
\* slot c holds a call of parseNodeName that returned
Parsed(c) == calls[c].kind = "parse" /\ calls[c].pc = "done"

\* the digits after "exp:" in an exp: part
DigitsOf(unix) == SubSeq(unix, 5, Len(unix))

\* the UTC date of a time given in seconds, and in milliseconds, as digits
DateOfSeconds(ds) == IsoDateOfDay(DivSeconds(ds).q)

DateOfMillis(ds) == DateOfSeconds(SubSeq(ds, 1, Len(ds) - 3))

\* the expire part ends with a YYYY-MM-DD date
DatedExpire(expire) == Len(expire) >= 10 /\ IsDateAt(expire, Len(expire) - 9)

\* C25 as stated: the expire marker with a date wins over an exp: marker;
\* without it an exp: marker of 10 to 13 digits gives the UTC date of its
\* timestamp, read as seconds when it has 10 digits and as milliseconds when
\* it has more; without either the expiry is absent.  The traffic field is
\* that of the traffic part alone, and the expiry that of the other parts.
C25_ByDigitCount ==
    \A c \in CallIds :
        Parsed(c) =>
            LET in     == calls[c].req[1]
                out    == calls[c].ret[1]
                digits == DigitsOf(in.unix)
            IN  /\ DatedExpire(in.expire)
                   => out.expireDate = Some(SubSeq(in.expire, Len(in.expire) - 9, Len(in.expire)))
                /\ ~DatedExpire(in.expire) /\ Len(digits) \in 10..13
                   => out.expireDate = Some(IF Len(digits) = 10 THEN DateOfSeconds(digits)
                                            ELSE DateOfMillis(digits))
                /\ ~DatedExpire(in.expire) /\ Len(digits) < 10
                   => out.expireDate = Absent
                /\ out.remainTrafficGB = parseNodeName(in.traffic).remainTrafficGB
                /\ out.expireDate = parseNodeName(in.expire \o in.unix).expireDate

\* C25 amended: as C25_ByDigitCount, but the timestamp is the first 13
\* digits of the run after exp:, and it is read as milliseconds when the
\* number is above 9999999999 and as seconds otherwise, however many digits
\* it is written with.
C25_ByMagnitude ==
    \A c \in CallIds :
        Parsed(c) =>
            LET in     == calls[c].req[1]
                out    == calls[c].ret[1]
                run    == DigitsOf(in.unix)
                digits == SubSeq(run, 1, Min(Len(run), 13))
            IN  /\ DatedExpire(in.expire)
                   => out.expireDate = Some(SubSeq(in.expire, Len(in.expire) - 9, Len(in.expire)))
                /\ ~DatedExpire(in.expire) /\ Len(digits) >= 10
                   => out.expireDate = Some(IF Len(StripZeros(digits)) <= 10
                                            THEN DateOfSeconds(digits)
                                            ELSE DateOfMillis(digits))
                /\ ~DatedExpire(in.expire) /\ Len(digits) < 10
                   => out.expireDate = Absent
                /\ out.remainTrafficGB = parseNodeName(in.traffic).remainTrafficGB
                /\ out.expireDate = parseNodeName(in.expire \o in.unix).expireDate

\* the parser returned 2023-11-14 and 1.5 GB for a label made of a 13-digit
\* exp: part with leading zeros (1700000000) and a traffic part
C25_Witness ==
    \E c \in CallIds :
        /\ Parsed(c)
        /\ calls[c].req[1].expire = <<>>
        /\ Len(DigitsOf(calls[c].req[1].unix)) = 13
        /\ calls[c].req[1].unix[5] = "0"
        /\ calls[c].ret[1].expireDate = Some(<<"2", "0", "2", "3", "-", "1", "1", "-", "1", "4">>)
        /\ calls[c].ret[1].remainTrafficGB = Some(Num(1500))

\* C26: a call of parseNodeName returns, for every label: it never raises,
\* and what it returns carries the label as its name.
C26_ParserNeverRaises ==
    \A c \in CallIds :
        calls[c].kind = "parse" =>
            /\ calls[c].pc = "done"
            /\ calls[c].ret # Absent
            /\ calls[c].ret[1].name = calls[c].text[1]

\* the parser returned for a label made of an exp: part of 17 digits and a
\* traffic part whose number has no digit
C26_Witness ==
    \E c \in CallIds :
        /\ Parsed(c)
        /\ calls[c].req[1].expire = <<>>
        /\ Len(DigitsOf(calls[c].req[1].unix)) = 17
        /\ calls[c].ret[1].remainTrafficGB = Some(NaN)

(***************************************************************************)
(* Properties of the syncs on the base64, dated and days-marker bodies.    *)
(***************************************************************************)
\* what the well-formed base64 bodies encode
Decodings ==
    { [text |-> B_b64, lines |-> D_nodes],
      [text |-> B_wrapped, lines |-> D_nodes],
      [text |-> B_101, lines |-> D_75] }

\* the three conditions: the trimmed text has base64 characters and
\* whitespace only, the text has no "://", the trimmed text has more than
\* 100 characters
ThreeConditions(flat) ==
    /\ \A i \in 1..Len(Trim(flat)) : Trim(flat)[i] \in Base64Chars \cup WhiteSpace
    /\ \A i \in 1..Len(flat) : ~HasAt(flat, i, <<":", "/", "/">>)
    /\ Len(Trim(flat)) > 100

\* the lines a sync is to take from a body: what the body encodes when the
\* three conditions hold and it is well-formed base64, the body otherwise
UsedAs(text) ==
    IF ThreeConditions(Flat(text)) /\ \E d \in Decodings : d.text = text
    THEN (CHOOSE d \in Decodings : d.text = text).lines
    ELSE text

\* the record a sync of kind `kind` builds from the lines at time ts
RecordOf(kind, lines, ts) ==
    IF kind = "global" THEN SyncResultOf(lines, ts)
    ELSE UserSyncResultOf(lines, ts, BaseDay + ts)

\* C21: the three conditions hold for the base64 bodies of more than 100
\* characters, well-formed or not, and for no other body; the record a sync
\* stores is that of the decoded lines when they hold and the body is
\* well-formed, and that of the body as received otherwise (a body of 100
\* characters, one with "://", one that atob rejects); the sync succeeds in
\* every case.
C21_DecodedWhenDetected ==
    \A c \in CallIds :
        /\ HasStored(c)
           => /\ ThreeConditions(Flat(calls[c].text))
                 <=> calls[c].text \in {B_b64, B_wrapped, B_101, B_odd, B_eq}
              /\ calls[c].res[1] =
                    RecordOf(calls[c].kind, UsedAs(calls[c].text), calls[c].res[1].lastSync)
        /\ calls[c].pc = "done" /\ calls[c].text # <<>> => calls[c].ret[1].success

\* a global sync has stored the two nodes, and the expiry 2027-01-15, of the
\* body of 101 characters
C21_Witness ==
    \E c \in CallIds :
        /\ HasStored(c) /\ calls[c].kind = "global"
        /\ calls[c].text = B_101
        /\ calls[c].res[1].nodeCount = 2
        /\ calls[c].res[1].earliestExpire = Some(<<"2", "0", "2", "7", "-", "0", "1", "-", "1", "5">>)

\* the expiry date of a line: the line is accepted and its label holds one
ExpiryOf(line) ==
    LET nodeName == extractNodeNameFromUrl(line)
    IN  IF isValidProxyUrl(line) /\ nodeName # <<>>
        THEN parseNodeName(nodeName).expireDate
        ELSE Absent

\* the expiry dates of the lines of a text, as a set
ExpiriesOf(text) ==
    {ExpiryOf(text[i])[1] : i \in {j \in 1..Len(text) : ExpiryOf(text[j]) # Absent}}

\* e is the smallest date of the set, or absent when the set is empty
SmallestOf(e, dates) ==
    IF dates = {} THEN e = Absent
    ELSE /\ e # Absent
         /\ e[1] \in dates
         /\ \A d \in dates : ~StrLess(d, e[1])

\* C23: the earliestExpire a global sync stores is the smallest, in string
\* order, of the expiry dates of the accepted lines, taken as a set (the order
\* of the lines plays no part), and null exactly when there is none.
C23_EarliestIsSmallest ==
    \A c \in CallIds :
        HasStored(c) /\ calls[c].kind = "global" =>
            SmallestOf(calls[c].res[1].earliestExpire, ExpiriesOf(UsedAs(calls[c].text)))

\* a global sync has stored 2026-05-04 for a body whose lines carry
\* 2027-01-01, 2026-05-05 and 2026-05-04, in that order
C23_Witness ==
    \E c \in CallIds :
        /\ HasStored(c) /\ calls[c].kind = "global"
        /\ calls[c].text = <<L_d27, L_d0505, L_trojan>>
        /\ calls[c].res[1].earliestExpire = Some(<<"2", "0", "2", "6", "-", "0", "5", "-", "0", "4">>)

\* the N of a line: the line is accepted by the single-user sync and its
\* label holds the "N days" marker
DaysOf(line) ==
    LET match == daysRegex(extractNodeNameFromUrl(line))
    IN  IF UserValidLine(line) /\ match # Absent
        THEN Some(DecimalValue(match[1]))
        ELSE Absent

DaysIn(text) == {DaysOf(text[i])[1] : i \in {j \in 1..Len(text) : DaysOf(text[j]) # Absent}}

\* e is the date `least` days after `day`, least the smallest of ns, or
\* absent when ns is empty
DateOfLeast(e, ns, day) ==
    IF ns = {} THEN e = Absent
    ELSE e = Some(IsoDateOfDay(day + (CHOOSE n \in ns : \A m \in ns : n <= m)))

\* C24: the earliestExpire a single-user sync stores is the date N days
\* after today for the smallest N among the accepted lines whose label
\* carries the "N days" marker, and null when no accepted line carries it; a
\* label with an absolute date gives nothing.
C24_DaysMarkerOnly ==
    \A c \in CallIds :
        HasStored(c) /\ calls[c].kind = "user" =>
            DateOfLeast(calls[c].res[1].earliestExpire, DaysIn(UsedAs(calls[c].text)),
                        BaseDay + calls[c].res[1].lastSync)

=============================================================================
